---------------------------- MODULE Spec2Model ----------------------------
(***************************************************************************)
(* A model of vmmfuzzer: the pseudo-random number generator (random.c),    *)
(* the dynamic array (array.c), the fuzzer object (iofuzzer.c), the        *)
(* port-spec parser and the worker harness (the program's main file).      *)
(*                                                                         *)
(* Machine words are those of the i386 target the dispatcher is written    *)
(* for (lib/i386/io.h): unsigned long and uintptr_t are 32 bits wide.      *)
(* Integers wider than 31 bits are kept as little-endian byte sequences,   *)
(* the way the program keeps the generator state in char state[8].         *)
(***************************************************************************)
EXTENDS Integers, Sequences, FiniteSets, TLC

VARIABLES
  ports,      \* static char *ports: the --ports argument (NULL when absent)
  tokens,     \* the token list the --ports argument was written from
  fuzzer,     \* the iofuzzer_t a caller drives (Spec, SpecPorts)
  rng,        \* the random_t objects of that caller: name -> state bytes
  issued,     \* the port instructions dispatched so far, oldest first
  lines,      \* what a caller read (get-state, get-variates, get-ports)
              \* after construction and after each operation
  ops,        \* the public operations applied so far, oldest first
  output,     \* static char *output: the --output argument (NULL when absent)
  num_threads,\* static unsigned long num_threads
  pc,         \* thread -> where the thread is in main / thread_start, or
              \* in iofuzzer_parse_ports (SpecParse)
  fuzzers,    \* thread -> the iofuzzer_t of its thread_start (NULL before)
  stream,     \* thread -> the FILE of its thread_start (NULL before)
  locked,     \* thread -> the FILE whose lock it holds (NULL when none)
  _random,    \* static random_t *_random: the state bytes of the shared one
  log,        \* the lines written to the sinks, in the order written
  _state,     \* static char state[8]: the --state argument (zero when absent)
  privilege,  \* the I/O privilege level of the process: 3 once iopl(3) succeeded
  status,     \* the exit status of the process (NULL while it runs)
  arg,        \* thread -> the arg of its thread_start (NULL when not created)
  einval,     \* whether strtoul sets errno to EINVAL when it converts no digit
  held,       \* thread -> the mutexes and FILE locks it holds (SpecLocks)
  calls,      \* thread -> the lock and unlock calls of its thread_start, in
              \* the order it makes them (SpecLocks)
  heap        \* the objects allocated: the memory of each and the count of
              \* the calls made on it (SpecRefs); the array under test
              \* (SpecArray); the locals of iofuzzer_parse_ports (SpecParse)

\* The variables of the library driver and those of the harness.
dvars == <<tokens, fuzzer, rng, lines, ops>>
hvars == <<output, num_threads, pc, fuzzers, stream, locked, _random, log,
           _state, privilege, status, arg, held, calls, heap>>
vars == <<ports, einval, issued, dvars, hvars>>

\* A pointer to an object is the one-element sequence holding the object,
\* the null pointer the empty sequence.  A char * kept in a variate slot is
\* the name of the buffer it points to.
NULL == <<>>
Ptr(x) == <<x>>

\* How a process ended: exit(EXIT_FAILURE), the status 0 of a process whose
\* last thread called pthread_exit, or a signal.
EXIT_FAILURE == Ptr("EXIT_FAILURE")
EXIT_SUCCESS == Ptr("EXIT_SUCCESS")
SIGSEGV == Ptr("SIGSEGV")

(***************************************************************************)
(* Program constants.                                                      *)
(***************************************************************************)
MAXPORT == 65535
MAXSIZE == 256
MINSIZE == 6
NUM_VARIATES == 7
NUM_FUNCS == 12
MINLENGTH == 16
STATE_SIZE == 8
SIZEOF_ULONG == 4


Min(a, b) == IF a < b THEN a ELSE b
Max(a, b) == IF a > b THEN a ELSE b

RECURSIVE Pow2(_)
Pow2(k) == IF k = 0 THEN 1 ELSE 2 * Pow2(k - 1)

(***************************************************************************)
(* random.c (second half of lib/array.c).  A random_t is its state buffer; *)
(* only the first eight bytes are ever copied out, and erand48/jrand48 use *)
(* the first six as unsigned short xsubi[3].                               *)
(***************************************************************************)

\* random_new: the state buffer comes from calloc.
random_new == [i \in 1..STATE_SIZE |-> 0]

\* One step of the 48-bit linear congruential generator behind erand48 and
\* jrand48: X' = (0x5DEECE66D * X + 0xB) mod 2^48, on the six low bytes;
\* bytes 6 and 7 of the buffer are not touched.
Xsubi(s) ==
  LET t0 == s[1] * 109 + 11
      t1 == s[1] * 230 + s[2] * 109 + t0 \div 256
      t2 == s[1] * 236 + s[2] * 230 + s[3] * 109 + t1 \div 256
      t3 == s[1] * 222 + s[2] * 236 + s[3] * 230 + s[4] * 109 + t2 \div 256
      t4 == s[1] * 5 + s[2] * 222 + s[3] * 236 + s[4] * 230 + s[5] * 109
              + t3 \div 256
      t5 == s[2] * 5 + s[3] * 222 + s[4] * 236 + s[5] * 230 + s[6] * 109
              + t4 \div 256
  IN  <<t0 % 256, t1 % 256, t2 % 256, t3 % 256, t4 % 256, t5 % 256, s[7], s[8]>>

\* floor(X * n / 2^48) for the 48-bit X held in s, 0 <= n <= 2^16: the
\* integer part of erand48's double times n.
MulHigh(s, n) ==
  LET c1 == (s[1] * n) \div 256
      c2 == (s[2] * n + c1) \div 256
      c3 == (s[3] * n + c2) \div 256
      c4 == (s[4] * n + c3) \div 256
      c5 == (s[5] * n + c4) \div 256
  IN  (s[6] * n + c5) \div 256

\* random_ulong_with_range: (unsigned long)(random_double() * (end - begin + 1)
\* + begin).  The draw advances the generator.  end - begin + 1 is computed in
\* unsigned long, modulo 2^32: an end of begin - 1 (written -1 here for
\* 2^32 - 1 when begin is 0) gives a factor of 0.
RangeWidth(begin, end) == IF end = begin - 1 THEN 0 ELSE end - begin + 1

random_ulong_with_range(s, begin, end) ==
  LET s1 == Xsubi(s)
  IN  [val |-> MulHigh(s1, RangeWidth(begin, end)) + begin, rng |-> s1]

\* random_ulong: (unsigned long)jrand48(): the high 32 bits of the new X.
random_ulong(s) ==
  LET s1 == Xsubi(s)
  IN  [val |-> <<s1[3], s1[4], s1[5], s1[6]>>, rng |-> s1]

\* (unsigned long)(pow(2, k) + 1), as a 32-bit word.
FermatWord(k) ==
  [i \in 1..SIZEOF_ULONG |->
     (IF i - 1 = k \div 8 THEN Pow2(k % 8) ELSE 0) + (IF i = 1 THEN 1 ELSE 0)]

\* (unsigned long)(pow(2, k) - 1), as a 32-bit word.
MersenneWord(k) ==
  [i \in 1..SIZEOF_ULONG |->
     IF i - 1 < k \div 8 THEN 255
     ELSE IF i - 1 = k \div 8 THEN Pow2(k % 8) - 1 ELSE 0]

random_fermat_number(s) ==
  LET d == random_ulong_with_range(s, 1, 31)
  IN  [val |-> FermatWord(d.val), rng |-> d.rng]

random_mersenne_number(s) ==
  LET d == random_ulong_with_range(s, 1, 32)
  IN  [val |-> MersenneWord(d.val), rng |-> d.rng]

\* const char charset[]: the 96 characters of the literal (the percent sign
\* is written twice) and the literal's terminating NUL, as character codes.
SIZEOF_CHARSET == 97
charset(i) == IF i <= 5 THEN 32 + i ELSE IF i <= 95 THEN 31 + i ELSE 0

\* The loop of random_string: k characters, each charset[draw(0, sizeof - 1)].
RECURSIVE StringDraws(_, _)
StringDraws(s, k) ==
  IF k = 0 THEN [out |-> <<>>, rng |-> s]
  ELSE IF k = 1
    THEN LET d == random_ulong_with_range(s, 0, SIZEOF_CHARSET - 1)
         IN  [out |-> <<charset(d.val)>>, rng |-> d.rng]
    ELSE LET a == StringDraws(s, k \div 2)
         IN  IF a.rng[1] >= 0
               THEN LET b == StringDraws(a.rng, k - k \div 2)
                    IN  [out |-> a.out \o b.out, rng |-> b.rng]
               ELSE a

\* random_string(random, string, length): string[0..length-3] drawn, a NUL at
\* string[length-2], the rest of the buffer as it was.
random_string(s, string, length) ==
  LET d == StringDraws(s, length - 2)
  IN  [out |-> d.out \o <<0>> \o SubSeq(string, length, Len(string)),
       rng |-> d.rng]

\* memcpy(dst, src, MIN(MAX(size, MINSIZE), MAXSIZE)) on the eight bytes kept.
CopyState(dst, src, size) ==
  LET n == Min(Max(size, MINSIZE), MAXSIZE)
  IN  [i \in 1..STATE_SIZE |-> IF i <= n THEN src[i] ELSE dst[i]]

\* random_get_state copying the six bytes the generator uses, whatever the
\* size.
random_get_state_xsubi(s, state, size) == CopyState(state, s, MINSIZE)

random_get_state(s, state, size) == CopyState(state, s, size)
random_set_state(s, state, size) == CopyState(s, state, size)


(***************************************************************************)
(* array.c.  An array_t is its backing store (data, one cell per element   *)
(* the allocation holds), its length, and the size in bytes it tracks.     *)
(***************************************************************************)

\* The content of memory that realloc added, or that lies outside the store.
Indeterminate == 0 - 1

\* array_new: calloc(MINLENGTH, size) zeroed cells; the tracked size starts
\* at the size of one element.
array_new(size) ==
  [data |-> [i \in 1..MINLENGTH |-> 0], element_size |-> size,
   length |-> 0, size |-> size]

\* The loop of _array_grow: n *= growth_factor * m, m = 1, 2, ... while
\* size > n, with growth_factor 2.
RECURSIVE GrowSize(_, _, _)
GrowSize(size, n, m) ==
  IF size > n THEN GrowSize(size, n * (2 * m), m + 1) ELSE n

\* realloc(data, n): the cells that fit are kept, added cells are not set.
Realloc(a, n) ==
  [i \in 1..(n \div a.element_size) |->
     IF i <= Len(a.data) THEN a.data[i] ELSE Indeterminate]

\* _array_grow, _array_shrink, _array_set_length: ok is FALSE where the C
\* function returns NULL.
_array_grow(a, length) ==
  LET size == a.element_size * length
      n == GrowSize(size, a.size, 1)
  IN  IF size <= a.size THEN [ok |-> FALSE, array |-> a]
      ELSE [ok |-> TRUE,
            array |-> [a EXCEPT !.data = Realloc(a, n), !.length = length,
                                !.size = n]]

_array_shrink(a, length) ==
  IF a.element_size * length > a.size THEN [ok |-> FALSE, array |-> a]
  ELSE [ok |-> TRUE, array |-> [a EXCEPT !.length = length]]

_array_set_length(a, length) ==
  IF a.element_size * length <= a.size THEN _array_shrink(a, length)
  ELSE _array_grow(a, length)

\* array_append_vals(array, data, count), data given as a sequence of count
\* elements copied to the cells from the old length on.
array_append_vals(a, data, count) ==
  LET r == _array_set_length(a, a.length + count)
  IN  IF r.ok
        THEN [r.array EXCEPT !.data =
                [i \in 1..Len(r.array.data) |->
                   IF i > a.length /\ i <= a.length + count
                     THEN data[i - a.length] ELSE r.array.data[i]]]
        ELSE r.array

array_append_val(a, v) == array_append_vals(a, <<v>>, 1)

array_new_with_length(size, length) ==
  _array_set_length(array_new(size), length).array

array_get_length(a) == a.length

\* array_index(array, type, index): the cell of the backing store, whatever
\* the length is.
array_index(a, index) ==
  IF index + 1 <= Len(a.data) THEN a.data[index + 1] ELSE Indeterminate

\* The elements of the array, in order.
Elements(a) == [i \in 1..a.length |-> array_index(a, i - 1)]

(***************************************************************************)
(* The port-spec parser of the main file.  A C string is the sequence of   *)
(* its characters.                                                         *)
(***************************************************************************)

HexDigits == <<"0", "1", "2", "3", "4", "5", "6", "7", "8", "9",
               "A", "B", "C", "D", "E", "F">>
LowerHex == <<"0", "1", "2", "3", "4", "5", "6", "7", "8", "9",
              "a", "b", "c", "d", "e", "f">>

\* The value of a character as a digit; 36 (no digit in any base) otherwise.
DigitVal(c) ==
  IF \E i \in 1..16 : HexDigits[i] = c
    THEN (CHOOSE i \in 1..16 : HexDigits[i] = c) - 1
  ELSE IF \E i \in 1..16 : LowerHex[i] = c
    THEN (CHOOSE i \in 1..16 : LowerHex[i] = c) - 1
  ELSE 36

\* The digit loop of strtoul from position i on: stops at the first
\* character that is no digit of the base.
RECURSIVE Accumulate(_, _, _, _)
Accumulate(str, i, base, acc) ==
  IF i > Len(str) \/ DigitVal(str[i]) >= base THEN acc
  ELSE Accumulate(str, i + 1, base, acc * base + DigitVal(str[i]))

\* strtoul(str, NULL, 0): a 0x or 0X prefix followed by a hex digit selects
\* base 16, a leading 0 base 8, anything else base 10; without a digit the
\* result is 0.
strtoul(str) ==
  IF Len(str) >= 3 /\ str[1] = "0" /\ str[2] \in {"x", "X"}
       /\ DigitVal(str[3]) < 16
    THEN Accumulate(str, 3, 16, 0)
  ELSE IF Len(str) >= 1 /\ str[1] = "0" THEN Accumulate(str, 1, 8, 0)
  ELSE Accumulate(str, 1, 10, 0)

\* errno after strtoul(str, NULL, 0) was entered with errno 0: EINVAL (22 in
\* <errno.h>) when no digit was converted and the C library reports that
\* (POSIX lets strtoul do so; glibc does not, musl does), 0 otherwise.
EINVAL == 22

strtoul_errno(str) ==
  IF einval /\ (str = <<>> \/ DigitVal(str[1]) >= 10) THEN EINVAL ELSE 0

\* strtok_r called until it returns NULL: the maximal runs of characters
\* other than the delimiter, empty runs skipped.
RECURSIVE strtok_r(_, _, _, _)
strtok_r(str, delim, i, tok) ==
  IF i > Len(str) THEN (IF tok = <<>> THEN <<>> ELSE <<tok>>)
  ELSE IF str[i] = delim
    THEN (IF tok = <<>> THEN <<>> ELSE <<tok>>)
           \o strtok_r(str, delim, i + 1, <<>>)
    ELSE strtok_r(str, delim, i + 1, Append(tok, str[i]))

\* for (port = begin; port <= end; port++) array_append_val(ports, &port)
RECURSIVE AppendPorts(_, _, _)
AppendPorts(a, port, end) ==
  IF port <= end THEN AppendPorts(array_append_val(a, port), port + 1, end)
  ELSE a

\* The clamp of the range end, and a clamp one short of it.
ClampEndShort(end) == IF end > MAXPORT THEN MAXPORT - 1 ELSE end
ClampEnd(end) == IF end > MAXPORT THEN MAXPORT ELSE end

\* The body of the outer loop for one comma-separated token.
ParseToken(a, str) ==
  LET sub == strtok_r(str, "-", 1, <<>>)
      begin == strtoul(sub[1])
      end == IF Len(sub) >= 2 THEN ClampEnd(strtoul(sub[2])) ELSE begin
  IN  IF sub = <<>> THEN a ELSE AppendPorts(a, begin, end)

\* The two tests errno == EINVAL of that body, which leave through err.
TokenFails(str) ==
  LET sub == strtok_r(str, "-", 1, <<>>)
  IN  /\ sub # <<>>
      /\ \/ strtoul_errno(sub[1]) = EINVAL
         \/ Len(sub) >= 2 /\ strtoul_errno(sub[2]) = EINVAL

RECURSIVE ParseTokens(_, _, _)
ParseTokens(a, toks, i) ==
  IF i > Len(toks) THEN a ELSE ParseTokens(ParseToken(a, toks[i]), toks, i + 1)

\* iofuzzer_parse_ports: NULL for a NULL string and for a string with a token
\* that leaves through err, the array of the ports otherwise.
ParseFails(toks) == \E i \in 1..Len(toks) : TokenFails(toks[i])

iofuzzer_parse_ports(string) ==
  IF string = NULL THEN NULL
  ELSE IF ParseFails(strtok_r(string[1], ",", 1, <<>>)) THEN NULL
  ELSE Ptr(ParseTokens(array_new(SIZEOF_ULONG),
                       strtok_r(string[1], ",", 1, <<>>), 1))

(***************************************************************************)
(* iofuzzer.c.  An iofuzzer_t is the record of its fields; random names    *)
(* the random_t it holds.  The private functions take the fuzzer and the   *)
(* state of that random_t and give both back.                              *)
(***************************************************************************)

\* variates[index] = v
SetVariate(f, index, v) ==
  [f EXCEPT !.variates.data[index + 1] = v]

Variate(f, index) == array_index(f.variates, index)

\* _iofuzzer_random_number
_iofuzzer_random_number(s) ==
  LET sel == random_ulong_with_range(s, 0, 2)
  IN  IF sel.val = 0 THEN random_ulong(sel.rng)
      ELSE IF sel.val = 1 THEN random_fermat_number(sel.rng)
      ELSE random_mersenne_number(sel.rng)

\* One assignment of _iofuzzer_randomize, variates[index] = <a draw>: c is
\* the fuzzer and the state of its random_t before it, d the draw made.
Assign(c, index, d) ==
  [fuzzer |-> SetVariate(c.fuzzer, index, d.val), rng |-> d.rng]

\* variates[0] = random_ulong_with_range(random, 0, NUM_FUNCS - 1)
Slot0(c) == Assign(c, 0, random_ulong_with_range(c.rng, 0, NUM_FUNCS - 1))

\* variates[1] and variates[2] = _iofuzzer_random_number(random)
Slot1(c) == Assign(c, 1, _iofuzzer_random_number(c.rng))
Slot2(c) == Assign(c, 2, _iofuzzer_random_number(c.rng))

\* variates[3] = random_ulong_with_range(random, 1, MAXSIZE / 4)
Slot3(c) == Assign(c, 3, random_ulong_with_range(c.rng, 1, MAXSIZE \div 4))

\* The port draw of _iofuzzer_randomize: an element of the port list at a
\* drawn index when there is a list, a number of 0..MAXPORT otherwise.
PortAfter(p, d) == [val |-> array_index(p, d.val + 1), rng |-> d.rng]
PortAt(p, d) == [val |-> array_index(p, d.val), rng |-> d.rng]

\* The port draw skipped for a list with no port in it.
DrawPortChecked(f, s) ==
  IF f.ports = NULL THEN random_ulong_with_range(s, 0, MAXPORT)
  ELSE IF array_get_length(f.ports[1]) = 0 THEN [val |-> 0, rng |-> s]
  ELSE PortAt(f.ports[1],
              random_ulong_with_range(s, 0, array_get_length(f.ports[1]) - 1))

DrawPort(f, s) ==
  IF f.ports # NULL
    THEN PortAt(f.ports[1],
                random_ulong_with_range(s, 0,
                                        array_get_length(f.ports[1]) - 1))
    ELSE random_ulong_with_range(s, 0, MAXPORT)

Slot4(c) == Assign(c, 4, DrawPort(c.fuzzer, c.rng))

\* variates[index] = random_string(random, (char *)variates[index], MAXSIZE):
\* the buffer the slot points to is filled; a null string is refused without
\* a draw.
Fill5(f, d) == [fuzzer |-> [f EXCEPT !.variate5 = d.out], rng |-> d.rng]
Fill6(f, d) == [fuzzer |-> [f EXCEPT !.variate6 = d.out], rng |-> d.rng]

FillBuffer(f, s, index) ==
  IF Variate(f, index) = "variate5"
    THEN Fill5(f, random_string(s, f.variate5, MAXSIZE))
  ELSE IF Variate(f, index) = "variate6"
    THEN Fill6(f, random_string(s, f.variate6, MAXSIZE))
  ELSE [fuzzer |-> f, rng |-> s]

Slot5(c) == FillBuffer(c.fuzzer, c.rng, 5)
Slot6(c) == FillBuffer(c.fuzzer, c.rng, 6)

\* _iofuzzer_randomize taking no snapshot.
SnapshotNone(f, s) == f

\* The first statement of _iofuzzer_randomize: the snapshot.
Snapshot(f, s) ==
  [f EXCEPT !.state = random_get_state(s, f.state, STATE_SIZE)]

\* The rest of _iofuzzer_randomize: the seven slots, in order.
Draws(f, s) ==
  Slot6(Slot5(Slot4(Slot3(Slot2(Slot1(Slot0([fuzzer |-> f, rng |-> s])))))))

\* _iofuzzer_randomize.  The fuzzer and the state of its random_t are values
\* by the time the function is entered: they are evaluated first.
_iofuzzer_randomize(f, s) ==
  CHOOSE r \in {Draws(Snapshot(x, y), y) : x \in {f}, y \in {s}} : TRUE

\* _iofuzzer_set_state
\* A restore of the six bytes the generator uses, whatever the size.
_iofuzzer_set_state_xsubi(f, s, state, size) ==
  _iofuzzer_randomize(f, random_set_state(s, state, MINSIZE))

_iofuzzer_set_state(f, s, state, size) ==
  _iofuzzer_randomize(f, random_set_state(s, state, size))

\* The instruction the switch of _iofuzzer_iterate executes: the function
\* numbered variates[0], with the six operand slots bound to a, b, c, d, S
\* and D; no case, and no instruction, for a selector outside 0..11.
names == <<"inb", "inw", "inl", "insb", "insw", "insl",
           "outb", "outw", "outl", "outsb", "outsw", "outsl">>

Dispatch(f) ==
  IF Variate(f, 0) \in 0..(NUM_FUNCS - 1)
    THEN <<[func |-> names[Variate(f, 0) + 1], a |-> Variate(f, 1),
            b |-> Variate(f, 2), c |-> Variate(f, 3), d |-> Variate(f, 4),
            S |-> Variate(f, 5), D |-> Variate(f, 6)]>>
    ELSE <<>>

\* _iofuzzer_iterate: the instruction of the current tuple, then the next
\* tuple.
_iofuzzer_iterate(f, s) ==
  LET n == _iofuzzer_randomize(f, s)
  IN  [fuzzer |-> n.fuzzer, rng |-> n.rng, issued |-> Dispatch(f)]

\* iofuzzer_new on a random_t fresh from random_new.
iofuzzer_new ==
  LET v == array_new_with_length(SIZEOF_ULONG, NUM_VARIATES)
      f == [ports |-> NULL, random |-> "own", state |-> [i \in 1..STATE_SIZE |-> 0],
            variate5 |-> [i \in 1..MAXSIZE |-> 0],
            variate6 |-> [i \in 1..MAXSIZE |-> 0],
            variates |-> [v EXCEPT !.data[6] = "variate5",
                                   !.data[7] = "variate6"]]
  IN  _iofuzzer_randomize(f, random_new)

\* iofuzzer_set_ports
iofuzzer_set_ports(f, s, p) ==
  LET f1 == [f EXCEPT !.ports = p]
      r == _iofuzzer_set_state(f1, s, f1.state, STATE_SIZE)
  IN  _iofuzzer_randomize(r.fuzzer, r.rng)

\* iofuzzer_set_random: s is the state of the random_t installed.
iofuzzer_set_random(f, id, s) ==
  _iofuzzer_randomize([f EXCEPT !.random = id], s)

\* iofuzzer_set_state
iofuzzer_set_state(f, s, state, size) == _iofuzzer_set_state(f, s, state, size)

\* iofuzzer_iterate_with_state without the restore of the state.
iterate_without_state(f, s, state, size) == _iofuzzer_iterate(f, s)

\* iofuzzer_iterate_with_state
iofuzzer_iterate_with_state(f, s, state, size) ==
  LET r == _iofuzzer_set_state(f, s, state, size)
  IN  _iofuzzer_iterate(r.fuzzer, r.rng)

\* iofuzzer_iterate
iofuzzer_iterate(f, s) == _iofuzzer_iterate(f, s)

\* iofuzzer_set_variates
iofuzzer_set_variates(f, v) == [f EXCEPT !.variates = v]

iofuzzer_get_state(f) == f.state
iofuzzer_get_variates(f) == f.variates
iofuzzer_get_ports(f) == f.ports

\* iofuzzer_get_random returns fuzzer->random, the pointer the fuzzer draws
\* through: the name of the random_t, whose state is rng[name].
iofuzzer_get_random(f) == f.random

\* The tests the public functions make of their pointer arguments.  With a
\* NULL fuzzer all but two set errno to EINVAL and return NULL (or 0);
\* iofuzzer_free and iofuzzer_unref return without touching errno.
HandleChecked ==
  {"get_ports", "get_random", "get_state", "get_variates", "iterate",
   "iterate_with_state", "ref", "set_ports", "set_random", "set_state",
   "set_variates"}
HandleSilent == {"free", "unref"}

\* A NULL state is refused with EINVAL by iofuzzer_get_state and
\* iofuzzer_set_state themselves, and by _iofuzzer_set_state for
\* iofuzzer_iterate_with_state and (through iofuzzer_set_state, on a fuzzer of
\* its own that it then drops) iofuzzer_new_with_state; each time before the
\* fuzzer is touched.
StateChecked == {"get_state", "set_state", "iterate_with_state",
                 "new_with_state"}

\* What a call with one NULL argument comes to: refused at a test, with the
\* errno it leaves, or not tested at all.  iofuzzer_set_random does not test
\* its random.
null_argument(c) ==
  IF c.null = "fuzzer"
    THEN [refused |-> TRUE,
          errno |-> IF c.op \in HandleSilent THEN 0 ELSE EINVAL]
  ELSE IF c.null = "state" THEN [refused |-> TRUE, errno |-> EINVAL]
  ELSE [refused |-> FALSE, errno |-> 0]

(***************************************************************************)
(* Inputs.                                                                 *)
(***************************************************************************)

\* Bounds of the model.
MaxOps == 2
MaxTokens == 2

\* The digits of v in the base, most significant first, and a number the way
\* a command line writes it: 0x... for 16, 0... for 8, plain for 10.
RECURSIVE Digits(_, _)
Digits(v, base) ==
  IF v < base THEN <<HexDigits[v + 1]>>
  ELSE Append(Digits(v \div base, base), HexDigits[(v % base) + 1])

Number(v, base) ==
  IF base = 16 THEN <<"0", "x">> \o Digits(v, 16)
  ELSE IF base = 8 THEN <<"0">> \o Digits(v, 8)
  ELSE Digits(v, 10)

\* A token of a port spec: a single value, or LOW-HIGH.
Single(v, base) == [range |-> FALSE, lo |-> v, hi |-> v, base |-> base]
Range(lo, hi, base) == [range |-> TRUE, lo |-> lo, hi |-> hi, base |-> base]

\* A token that is no number: base 0 stands for a word without a digit.
Word == [range |-> FALSE, lo |-> 0, hi |-> 0, base |-> 0]

RenderToken(t) ==
  IF t.base = 0 THEN <<"z", "z">>
  ELSE IF t.range THEN Number(t.lo, t.base) \o <<"-">> \o Number(t.hi, t.base)
  ELSE Number(t.lo, t.base)

RECURSIVE Render(_)
Render(toks) ==
  IF toks = <<>> THEN <<>>
  ELSE IF Len(toks) = 1 THEN RenderToken(toks[1])
  ELSE RenderToken(toks[1]) \o <<",">> \o Render(Tail(toks))

TokenSet ==
  {Single(112, 16), Single(144, 10), Single(131072, 16), Single(8, 8),
   Range(128, 130, 16), Range(65534, 131071, 16), Range(5, 3, 10),
   Range(131072, 196608, 16)}

Example1 == <<Single(112, 16), Range(128, 130, 16), Single(144, 16)>>

TokenLists ==
  UNION {[1..n -> TokenSet] : n \in 0..MaxTokens} \cup {Example1}

\* Port specs with a token that is no number.
Garbled == {<<Word>>, <<Single(112, 16), Word>>}

\* The 8-byte values given to --state, set-state and iterate-with-state:
\* 0x0123456789ABCDEF as the bytes of a little-endian unsigned long long.
Seeds == {<<239, 205, 171, 137, 103, 69, 35, 1>>}
Sizes == {4, 8}

\* random_new_with_state(state, size)
random_new_with_state(state, size) == random_set_state(random_new, state, size)

\* What a caller reads through the getters.
Line(f) ==
  [state |-> iofuzzer_get_state(f),
   variates |-> Elements(iofuzzer_get_variates(f)),
   ports |-> iofuzzer_get_ports(f)]

\* Arrays a caller can hand to set-variates: seven slots with a selector and
\* a count of its own choice, or eight slots; the two buffer addresses are
\* those read from the fuzzer.
CallerVariates(f) ==
  LET a == array_new_with_length(SIZEOF_ULONG, NUM_VARIATES + 1)
  IN  {[f.variates EXCEPT !.data[1] = NUM_FUNCS, !.data[4] = 0],
       [a EXCEPT !.data = [i \in 1..Len(a.data) |->
                             IF i <= NUM_VARIATES THEN f.variates.data[i]
                             ELSE 0]]}

(***************************************************************************)
(* Spec: one fuzzer driven through its public operations.                  *)
(***************************************************************************)

\* No harness runs around the fuzzer of Spec and SpecPorts.
NoHarness ==
  /\ output = NULL
  /\ num_threads = 0
  /\ pc = <<>>
  /\ fuzzers = <<>>
  /\ stream = <<>>
  /\ locked = <<>>
  /\ _random = random_new
  /\ log = <<>>
  /\ _state = random_new
  /\ privilege = 0
  /\ status = NULL
  /\ arg = <<>>
  /\ held = <<>>
  /\ calls = <<>>
  /\ heap = <<>>

Fresh ==
  /\ fuzzer = iofuzzer_new.fuzzer
  /\ rng = [own |-> iofuzzer_new.rng, ext |-> random_new]
  /\ issued = <<>>
  /\ lines = <<Line(iofuzzer_new.fuzzer)>>
  /\ ops = <<>>
  /\ NoHarness

Init ==
  /\ tokens \in {<<>>, Example1}
  /\ ports \in {NULL, Ptr(Render(tokens))}
  /\ einval = FALSE
  /\ Fresh

\* The bookkeeping every operation shares: r is what the operation returned,
\* with the instruction it issued, if any.
Applied(op, r) ==
  /\ status = NULL
  /\ fuzzer' = r.fuzzer
  /\ rng' = [rng EXCEPT ![r.fuzzer.random] = r.rng]
  /\ issued' = issued \o r.issued
  /\ lines' = Append(lines, Line(r.fuzzer))
  /\ ops' = Append(ops, op)
  /\ UNCHANGED <<ports, einval, tokens, hvars>>

\* An operation that issues no instruction.
Quiet(r) == [fuzzer |-> r.fuzzer, rng |-> r.rng, issued |-> <<>>]

Iterate ==
  /\ Len(ops) < MaxOps
  /\ Applied([op |-> "iterate"],
             iofuzzer_iterate(fuzzer, rng[fuzzer.random]))

IterateWithState ==
  /\ Len(ops) < MaxOps
  /\ \E state \in Seeds \cup {lines[i].state : i \in 1..Len(lines)} :
       Applied([op |-> "iterate_with_state", state |-> state,
                size |-> STATE_SIZE],
               iofuzzer_iterate_with_state(fuzzer, rng[fuzzer.random], state,
                                           STATE_SIZE))

SetPorts ==
  /\ Len(ops) < MaxOps
  /\ Applied([op |-> "set_ports"],
             Quiet(iofuzzer_set_ports(fuzzer, rng[fuzzer.random],
                                      iofuzzer_parse_ports(ports))))

SetRandom ==
  /\ Len(ops) < MaxOps
  /\ \E state \in Seeds :
       Applied([op |-> "set_random", state |-> state],
               Quiet(iofuzzer_set_random(fuzzer, "ext",
                       random_new_with_state(state, STATE_SIZE))))

SetState ==
  /\ Len(ops) < MaxOps
  /\ \E state \in Seeds, size \in Sizes :
       Applied([op |-> "set_state", state |-> state, size |-> size],
               Quiet(iofuzzer_set_state(fuzzer, rng[fuzzer.random], state,
                                        size)))

SetVariates ==
  /\ Len(ops) < MaxOps
  /\ \E v \in CallerVariates(fuzzer) :
       Applied([op |-> "set_variates"],
               Quiet([fuzzer |-> iofuzzer_set_variates(fuzzer, v),
                      rng |-> rng[fuzzer.random]]))

\* A second fuzzer is constructed and driven from here on; what was read
\* from the first stays with the caller.
New ==
  /\ Len(ops) < MaxOps
  /\ status = NULL
  /\ fuzzer' = iofuzzer_new.fuzzer
  /\ rng' = [rng EXCEPT !.own = iofuzzer_new.rng]
  /\ lines' = Append(lines, Line(iofuzzer_new.fuzzer))
  /\ ops' = Append(ops, [op |-> "new"])
  /\ UNCHANGED <<ports, einval, tokens, issued, hvars>>

Next ==
  \/ Iterate
  \/ IterateWithState
  \/ SetPorts
  \/ SetRandom
  \/ SetState
  \/ SetVariates
  \/ New

Spec == Init /\ [][Next]_vars

(***************************************************************************)
(* SpecNull: the same driver, which also calls the public functions with   *)
(* one NULL argument.                                                      *)
(***************************************************************************)

\* The calls with a NULL argument: the fuzzer, the state buffer, the random.
NullCalls ==
  {[op |-> o, null |-> "fuzzer"] : o \in HandleChecked \cup HandleSilent}
    \cup {[op |-> o, null |-> "state"] : o \in StateChecked}
    \cup {[op |-> "set_random", null |-> "random"]}

\* A call that is refused at the test of its arguments: what it returned and
\* the errno it left are recorded with the fuzzer before and after.
Refused(c) ==
  /\ Len(ops) < MaxOps
  /\ status = NULL
  /\ null_argument(c).refused
  /\ ops' = Append(ops, [op |-> c.op, null |-> c.null, ret |-> NULL,
                         errno |-> null_argument(c).errno,
                         before |-> fuzzer, after |-> fuzzer])
  /\ lines' = Append(lines, Line(fuzzer))
  /\ UNCHANGED <<ports, einval, tokens, fuzzer, rng, issued, hvars>>

NullHandle == \E c \in NullCalls : c.null = "fuzzer" /\ Refused(c)

NullState == \E c \in NullCalls : c.null = "state" /\ Refused(c)

\* iofuzzer_set_random(fuzzer, NULL): random_unref of the random_t held,
\* fuzzer->random = NULL, random_ref(NULL) (refused), then
\* _iofuzzer_randomize: random_get_state(NULL, ...) is refused and the first
\* draw calls random_double(NULL), which locks the mutex of a NULL random_t.
\* The process is killed there; nothing is returned.
NullRandom ==
  /\ Len(ops) < MaxOps
  /\ status = NULL
  /\ \E c \in NullCalls :
       /\ ~null_argument(c).refused
       /\ ops' = Append(ops, [op |-> c.op, null |-> c.null, ret |-> SIGSEGV,
                              errno |-> EINVAL, before |-> fuzzer,
                              after |-> [fuzzer EXCEPT !.random = NULL]])
  /\ fuzzer' = [fuzzer EXCEPT !.random = NULL]
  /\ status' = SIGSEGV
  /\ UNCHANGED <<ports, einval, tokens, rng, issued, lines, output,
                 num_threads, pc, fuzzers, stream, locked, _random, log,
                 _state, privilege, arg, held, calls, heap>>

NextNull ==
  \/ Next
  \/ NullHandle
  \/ NullState
  \/ NullRandom

SpecNull == Init /\ [][NextNull]_vars

(***************************************************************************)
(* SpecPorts: the fuzzer of one worker of the harness, for every port spec *)
(* of the bounded set: thread_start installs the parsed list and the       *)
(* process-wide random_t, then iterates.                                   *)
(***************************************************************************)

\* thread_start from iofuzzer_set_ports to iofuzzer_set_random: string is the
\* --ports argument, seed the state of the process-wide random_t.
InstallPorts(f, s, string) ==
  iofuzzer_set_ports(f, s, iofuzzer_parse_ports(string))

thread_setup(f, s, string, seed) ==
  iofuzzer_set_random(InstallPorts(f, s, string).fuzzer, "ext", seed)

\* A missing --ports leaves the global ports NULL.  What strtoul does
\* without a digit matters to the garbled specs only: the others are run under
\* one C library.
InitPorts ==
  /\ tokens \in TokenLists \cup Garbled
  /\ ports \in {Ptr(Render(tokens))} \cup (IF tokens = <<>> THEN {NULL} ELSE {})
  /\ einval \in (IF tokens \in Garbled THEN BOOLEAN ELSE {FALSE})
  /\ Fresh

ThreadSetup ==
  /\ ops = <<>>
  /\ \E state \in Seeds :
       Applied([op |-> "setup", state |-> state],
               Quiet(thread_setup(fuzzer, rng[fuzzer.random], ports,
                                  random_new_with_state(state, STATE_SIZE))))

\* The loop of thread_start, once the fuzzer is set up.
ThreadIterate ==
  /\ ops # <<>>
  /\ Len(ops) < MaxOps
  /\ Applied([op |-> "iterate"], iofuzzer_iterate(fuzzer, rng[fuzzer.random]))

NextPorts == ThreadSetup \/ ThreadIterate

SpecPorts == InitPorts /\ [][NextPorts]_vars

(***************************************************************************)
(* Harness: main and its workers.  A step of a thread runs up to its next  *)
(* access to the shared random_t: what a thread does to its own fuzzer and *)
(* its own FILE commutes with the steps of the other threads, flockfile    *)
(* moves right to the first such access and funlockfile left to the last.  *)
(* _iofuzzer_randomize on the shared random_t is two steps, the snapshot   *)
(* and the draws, each of which locks the random_t on its own.             *)
(***************************************************************************)

\* The values of --num-threads.  Thread 0 is the main thread, thread k the
\* k-th thread pthread_create made.
ThreadCounts == {1, 2}
Threads == UNION {0..n : n \in ThreadCounts}

\* Bound: the lines logged in a run.
MaxLines == 2

\* The values of --state: the seed, and zero for a missing option, which is
\* run with one worker.
StateArgs(n) == IF n = 1 THEN Seeds \cup {random_new} ELSE Seeds

\* stdout, and the FILE a worker got from its own fopen(output, "a+").
Stdout == <<"stdout">>
Opened(t) == <<"file", t>>

InitHarness ==
  /\ tokens = Example1
  /\ ports = Ptr(Render(tokens))
  /\ einval = FALSE
  /\ fuzzer = iofuzzer_new.fuzzer
  /\ rng = [own |-> iofuzzer_new.rng, ext |-> random_new]
  /\ lines = <<>>
  /\ ops = <<>>
  /\ issued = <<>>
  /\ output \in {NULL, Ptr("log")}
  /\ num_threads \in ThreadCounts
  /\ _state \in StateArgs(num_threads)
  /\ pc = [t \in Threads |-> IF t = 0 THEN "iopl" ELSE "none"]
  /\ fuzzers = [t \in Threads |-> NULL]
  /\ stream = [t \in Threads |-> NULL]
  /\ locked = [t \in Threads |-> NULL]
  /\ arg = [t \in Threads |-> NULL]
  /\ _random = random_new
  /\ log = <<>>
  /\ privilege = 0
  /\ status = NULL
  /\ held = <<>>
  /\ calls = <<>>
  /\ heap = <<>>

\* What no step of the harness changes.
fixed == <<ports, einval, dvars, output, num_threads, _state, held, calls, heap>>

Goto(t, label) == pc' = [pc EXCEPT ![t] = label]

\* main going on to the workers whether or not iopl(3) succeeded.
IoplUnchecked ==
  /\ pc[0] = "iopl"
  /\ \E granted \in BOOLEAN : privilege' = IF granted THEN 3 ELSE privilege
  /\ Goto(0, "spawn")
  /\ UNCHANGED <<fixed, issued, fuzzers, stream, locked, _random, log, status,
                 arg>>

\* main: iopl(3); perror and exit(EXIT_FAILURE) when it is refused.
Iopl ==
  /\ pc[0] = "iopl"
  /\ \E granted \in BOOLEAN :
       IF granted
         THEN privilege' = 3 /\ Goto(0, "spawn") /\ status' = status
         ELSE privilege' = privilege /\ Goto(0, "exit")
                /\ status' = EXIT_FAILURE
  /\ UNCHANGED <<fixed, issued, fuzzers, stream, locked, _random, log, arg>>

\* The loop starting at 0, and main calling thread_start with the value the
\* loop left in thread_num.
thread_args_from_zero(n) ==
  [t \in Threads |-> IF t = 0 THEN Ptr(0) ELSE IF t <= n THEN Ptr(t - 1)
                     ELSE NULL]
thread_args_main_last(n) ==
  [t \in Threads |-> IF t = 0 THEN Ptr(Max(n, 1)) ELSE IF t < n THEN Ptr(t)
                     ELSE NULL]

\* The arg of each thread_start: for (thread_num = 1; thread_num <
\* num_threads; thread_num++) pthread_create(..., (void *)thread_num), then
\* thread_start((void *)0) on the main thread.
thread_args(n) ==
  [t \in Threads |-> IF t = 0 THEN Ptr(0) ELSE IF t < n THEN Ptr(t) ELSE NULL]

\* main from random_new_with_state on: _random, the pthread_create loop and
\* the call of thread_start.  A pthread_create that fails ends the process
\* (with the thread counts of the model it is the first one, and no worker
\* exists yet).
Spawn ==
  /\ pc[0] = "spawn"
  /\ status = NULL
  /\ _random' = random_new_with_state(_state, STATE_SIZE)
  /\ \/ /\ arg' = thread_args(num_threads)
        /\ pc' = [t \in Threads |-> IF arg'[t] # NULL THEN "start" ELSE "none"]
        /\ status' = status
     \/ /\ \E t \in Threads \ {0} : thread_args(num_threads)[t] # NULL
        /\ arg' = arg
        /\ Goto(0, "exit")
        /\ status' = EXIT_FAILURE
  /\ UNCHANGED <<fixed, issued, fuzzers, stream, locked, log, privilege>>

\* thread_start with a port installation that draws once from the shared
\* random_t before iofuzzer_set_random takes its snapshot.
thread_fuzzer_drawn(string, s) ==
  Snapshot([InstallPorts(iofuzzer_new.fuzzer, iofuzzer_new.rng, string).fuzzer
              EXCEPT !.random = "ext"], Xsubi(s))

\* thread_start from the fuzzer on, up to the snapshot of the
\* _iofuzzer_randomize of iofuzzer_set_random(fuzzer, _random).
thread_fuzzer(string, s) ==
  Snapshot([InstallPorts(iofuzzer_new.fuzzer, iofuzzer_new.rng, string).fuzzer
              EXCEPT !.random = "ext"], s)

\* thread_start up to that snapshot: the stream is stdout or the thread's own
\* fopen of the output.  A failed fopen goes to err with the stream NULL and
\* the fuzzer not yet assigned, a failed iofuzzer_new with the fuzzer NULL.
Start(t) ==
  /\ pc[t] = "start"
  /\ status = NULL
  /\ \/ /\ stream' = [stream EXCEPT ![t] =
                        IF output = NULL THEN Stdout ELSE Opened(t)]
        /\ \/ Goto(t, "set_random_draws")
           \/ Goto(t, "err")
     \/ /\ output # NULL
        /\ stream' = stream
        /\ Goto(t, "err")
  /\ fuzzers' = [fuzzers EXCEPT ![t] =
       IF pc'[t] = "err" THEN NULL ELSE Ptr(thread_fuzzer(ports, _random))]
  /\ UNCHANGED <<fixed, issued, locked, _random, log, privilege, status, arg>>

\* The threads that have not ended.
Live == {t \in Threads : pc[t] \notin {"none", "exited"}}

\* err: iofuzzer_unref(fuzzer), fclose(stream), pthread_exit(EXIT_FAILURE).
\* After a failed fopen the fuzzer is read before it was assigned and the
\* stream given to fclose is NULL: the behaviour is undefined, the process is
\* killed or the calls come back.  pthread_exit ends the calling thread only;
\* the process ends, with status 0, when it was the last one.  (After a
\* failed iofuzzer_new the stream closed may be stdout, which the other
\* workers go on writing to: LogLine lets any of their lines fail.)
Err(t) ==
  /\ pc[t] = "err"
  /\ status = NULL
  /\ \/ /\ stream[t] = NULL
        /\ status' = SIGSEGV
        /\ pc' = pc
     \/ /\ Goto(t, "exited")
        /\ status' = IF Live = {t} THEN EXIT_SUCCESS ELSE status
  /\ UNCHANGED <<fixed, issued, fuzzers, stream, locked, _random, log,
                 privilege, arg>>

\* The draws of a _iofuzzer_randomize on the shared random_t: r is what they
\* give.
Drawn(t, r, label) ==
  /\ fuzzers' = [fuzzers EXCEPT ![t] = Ptr(r.fuzzer)]
  /\ _random' = r.rng
  /\ Goto(t, label)

\* The rest of iofuzzer_set_random.
SetRandomDraws(t) ==
  /\ pc[t] = "set_random_draws"
  /\ status = NULL
  /\ Drawn(t, Draws(fuzzers[t][1], _random), "lock")
  /\ UNCHANGED <<fixed, issued, stream, locked, log, privilege, status, arg>>

\* The head of the loop: flockfile(stream), which waits while another thread
\* holds the lock of this FILE; the fprintf calls (the ordinal, the state,
\* the mnemonic and the slots); fflush(stream) and fsync(fileno(stream)),
\* either of which may fail, the results not being looked at.
\* A table with the mnemonics of inb and outb in each other's place.
names_swapped ==
  <<"outb", "inw", "inl", "insb", "insw", "insl",
    "inb", "outw", "outl", "outsb", "outsw", "outsl">>

\* char *names[] of thread_start: the mnemonic printed for variates[0].
thread_start_names ==
  <<"inb", "inw", "inl", "insb", "insw", "insl",
    "outb", "outw", "outl", "outsb", "outsw", "outsl">>

\* A flockfile that returns without the lock.
flockfile_none(t) == locked

\* flockfile(stream) by worker t, once nobody holds the lock of its FILE.
flockfile(t) == [locked EXCEPT ![t] = stream[t]]

LogLine(t) ==
  /\ pc[t] = "lock"
  /\ status = NULL
  /\ Len(log) < MaxLines
  /\ \A u \in Threads : locked[u] # stream[t]
  /\ locked' = flockfile(t)
  /\ \E done \in BOOLEAN :
       log' = Append(log, [worker |-> t, ordinal |-> arg[t][1],
                           stream |-> stream[t],
                           state |-> iofuzzer_get_state(fuzzers[t][1]),
                           name |->
                             thread_start_names[
                               Variate(fuzzers[t][1], 0) + 1],
                           variates |->
                             Elements(iofuzzer_get_variates(fuzzers[t][1])),
                           flushed |-> done])
  /\ Goto(t, "iterate")
  /\ UNCHANGED <<fixed, issued, fuzzers, stream, _random, privilege, status,
                 arg>>

\* The last line the worker wrote.
Written(t) == {i \in 1..Len(log) : log[i].worker = t}
LastWritten(t) == CHOOSE i \in Written(t) : \A j \in Written(t) : j <= i

\* iofuzzer_iterate up to the snapshot of _iofuzzer_randomize: the
\* instruction of the current tuple is executed.
IterateDispatch(t) ==
  /\ pc[t] = "iterate"
  /\ status = NULL
  /\ issued' = Append(issued, [worker |-> t, line |-> LastWritten(t),
                               instr |-> Dispatch(fuzzers[t][1])])
  /\ fuzzers' = [fuzzers EXCEPT ![t] = Ptr(Snapshot(fuzzers[t][1], _random))]
  /\ Goto(t, "iterate_draws")
  /\ UNCHANGED <<fixed, stream, locked, _random, log, privilege, status, arg>>

\* The rest of iofuzzer_iterate, funlockfile(stream), and back to the head of
\* the loop.
IterateDraws(t) ==
  /\ pc[t] = "iterate_draws"
  /\ status = NULL
  /\ Drawn(t, Draws(fuzzers[t][1], _random), "lock")
  /\ locked' = [locked EXCEPT ![t] = NULL]
  /\ UNCHANGED <<fixed, issued, stream, log, privilege, status, arg>>

NextHarness ==
  \/ Iopl
  \/ Spawn
  \/ \E t \in Threads :
       \/ Start(t)
       \/ Err(t)
       \/ SetRandomDraws(t)
       \/ LogLine(t)
       \/ IterateDispatch(t)
       \/ IterateDraws(t)

Harness == InitHarness /\ [][NextHarness]_vars

(***************************************************************************)
(* SpecLocks: the locking of the workers.  Each function is the sequence   *)
(* of pthread_mutex_lock, flockfile, pthread_mutex_unlock and funlockfile  *)
(* calls it makes; a worker goes through the sequence of thread_start, one *)
(* call a step, and a lock step waits while the lock is held.              *)
(***************************************************************************)

\* Bound: the times a loop whose body is one lock and unlock of the same
\* mutex is gone through (the draws of random_string, the array_append_val
\* calls of the parser).
MaxRepeat == 1

\* The mutexes and FILE locks: those of a worker's own fuzzer, random_t,
\* arrays and FILE, and the process-wide ones (owner 0).
FuzzerMutex(t) == [kind |-> "fuzzer", owner |-> t]
OwnRandomMutex(t) == [kind |-> "random", owner |-> t]
SharedRandomMutex == [kind |-> "_random", owner |-> 0]
PortsMutex(t) == [kind |-> "ports", owner |-> t]
VariatesMutex(t) == [kind |-> "variates", owner |-> t]
SinkLock(t) ==
  IF output = NULL THEN [kind |-> "stdout", owner |-> 0]
  ELSE [kind |-> "file", owner |-> t]

\* lock(m); body; unlock(m)
Holding(m, body) ==
  <<[lock |-> TRUE, m |-> m]>> \o body \o <<[lock |-> FALSE, m |-> m]>>

RECURSIVE Repeat(_, _)
Repeat(body, n) == IF n = 0 THEN <<>> ELSE body \o Repeat(body, n - 1)

\* random.c: each of these locks the mutex of the random_t around one
\* statement.
random_double_locks(r) == Holding(r, <<>>)
random_get_state_locks(r) == Holding(r, <<>>)
random_set_state_locks(r) == Holding(r, <<>>)
random_ref_locks(r) == Holding(r, <<>>)
random_unref_locks(r) == Holding(r, <<>>)

\* random_string: one draw for each character.
random_string_locks(r) ==
  Repeat(random_double_locks(r), Min(MaxRepeat, MAXSIZE - 2))

\* array.c: likewise for the mutex of the array.
array_ref_locks(a) == Holding(a, <<>>)
array_unref_locks(a) == Holding(a, <<>>)
array_get_length_locks(a) == Holding(a, <<>>)
array_append_vals_locks(a) == Holding(a, <<>>)

\* _iofuzzer_random_number: the draw of the kind, then the draw of the number.
random_number_locks(r) == random_double_locks(r) \o random_double_locks(r)

\* _iofuzzer_randomize on the random_t r, with the port list p (NULL when
\* there is none): the snapshot and the draws of the seven slots;
\* array_get_length is called for the argument of the port draw.
randomize_locks(r, p) ==
  random_get_state_locks(r) \o random_double_locks(r)
    \o random_number_locks(r) \o random_number_locks(r)
    \o random_double_locks(r)
    \o (IF p # NULL THEN array_get_length_locks(p[1]) ELSE <<>>)
    \o random_double_locks(r)
    \o random_string_locks(r) \o random_string_locks(r)

\* iofuzzer_new: random_new (random_ref), array_new_with_length (array_ref),
\* _iofuzzer_randomize outside the mutex of the fuzzer, iofuzzer_ref.
iofuzzer_new_locks(t) ==
  random_ref_locks(OwnRandomMutex(t)) \o array_ref_locks(VariatesMutex(t))
    \o randomize_locks(OwnRandomMutex(t), NULL)
    \o Holding(FuzzerMutex(t), <<>>)

\* iofuzzer_parse_ports: array_new (array_ref) and one array_append_val for
\* each port; nothing for a NULL string.
parse_ports_locks(t, n) ==
  array_ref_locks(PortsMutex(t))
    \o Repeat(array_append_vals_locks(PortsMutex(t)), Min(MaxRepeat, n))

\* iofuzzer_set_ports: array_unref of the NULL list held (no lock),
\* array_ref, _iofuzzer_set_state and _iofuzzer_randomize, all inside the
\* mutex of the fuzzer.
iofuzzer_set_ports_locks(t, p) ==
  Holding(FuzzerMutex(t),
          (IF p # NULL THEN array_ref_locks(p[1]) ELSE <<>>)
            \o random_set_state_locks(OwnRandomMutex(t))
            \o randomize_locks(OwnRandomMutex(t), p)
            \o randomize_locks(OwnRandomMutex(t), p))

\* iofuzzer_set_random(fuzzer, _random)
iofuzzer_set_random_locks(t, p) ==
  Holding(FuzzerMutex(t),
          random_unref_locks(OwnRandomMutex(t))
            \o random_ref_locks(SharedRandomMutex)
            \o randomize_locks(SharedRandomMutex, p))

\* The getters of iofuzzer.c lock the mutex of the fuzzer around one read.
iofuzzer_get_locks(t) == Holding(FuzzerMutex(t), <<>>)

\* iofuzzer_iterate: the instruction and _iofuzzer_randomize inside the mutex
\* of the fuzzer.
iofuzzer_iterate_locks(t, p) ==
  Holding(FuzzerMutex(t), randomize_locks(SharedRandomMutex, p))

\* The port list of a worker, as far as locking goes: its mutex, or NULL.
WorkerPorts(t) ==
  IF iofuzzer_parse_ports(ports) = NULL THEN NULL ELSE Ptr(PortsMutex(t))

\* thread_start before the loop.
thread_setup_locks(t) ==
  iofuzzer_new_locks(t)
    \o (IF WorkerPorts(t) = NULL THEN <<>>
        ELSE parse_ports_locks(t, array_get_length(
                                    iofuzzer_parse_ports(ports)[1])))
    \o iofuzzer_set_ports_locks(t, WorkerPorts(t))
    \o iofuzzer_get_locks(t)
    \o (IF WorkerPorts(t) = NULL THEN <<>>
        ELSE array_unref_locks(PortsMutex(t)))
    \o iofuzzer_set_random_locks(t, WorkerPorts(t))
    \o iofuzzer_get_locks(t)
    \o iofuzzer_get_locks(t) \o array_get_length_locks(VariatesMutex(t))

\* A loop that calls iofuzzer_iterate first and locks the sink inside the
\* mutex of the fuzzer.
thread_loop_locks_inside(t) ==
  Holding(FuzzerMutex(t),
          Holding(SinkLock(t), <<>>)
            \o randomize_locks(SharedRandomMutex, WorkerPorts(t)))

\* The body of the loop of thread_start: flockfile, iofuzzer_get_state,
\* iofuzzer_iterate, funlockfile.
thread_loop_locks(t) ==
  Holding(SinkLock(t),
          iofuzzer_get_locks(t) \o iofuzzer_iterate_locks(t, WorkerPorts(t)))

\* thread_start
thread_start_locks(t) == thread_setup_locks(t) \o thread_loop_locks(t)

\* The head of the loop in that sequence.
LoopHead(t) == Len(thread_setup_locks(t)) + 1

InitLocks ==
  /\ tokens \in {<<>>, Example1}
  /\ ports = IF tokens = <<>> THEN NULL ELSE Ptr(Render(tokens))
  /\ einval = FALSE
  /\ fuzzer = iofuzzer_new.fuzzer
  /\ rng = [own |-> iofuzzer_new.rng, ext |-> random_new]
  /\ lines = <<>>
  /\ ops = <<>>
  /\ issued = <<>>
  /\ output \in {NULL, Ptr("log")}
  /\ num_threads \in ThreadCounts
  /\ _state = random_new
  /\ pc = [t \in Threads |-> IF t < num_threads THEN 1 ELSE 0]
  /\ held = [t \in Threads |-> <<>>]
  /\ calls = [t \in Threads |->
                IF t < num_threads
                  THEN [all |-> thread_start_locks(t), head |-> LoopHead(t)]
                  ELSE [all |-> <<>>, head |-> 0]]
  /\ fuzzers = <<>>
  /\ stream = <<>>
  /\ locked = <<>>
  /\ arg = thread_args(num_threads)
  /\ _random = random_new
  /\ log = <<>>
  /\ privilege = 3
  /\ status = NULL
  /\ heap = <<>>

\* The step a worker is at, and the workers holding a mutex.
AtStep(t) == calls[t].all[pc[t]]
Holders(m) == {u \in Threads : \E i \in 1..Len(held[u]) : held[u][i] = m}

\* On to the next call; the loop goes back to its head.
Stepped(t) ==
  /\ pc' = [pc EXCEPT ![t] =
              IF pc[t] = Len(calls[t].all) THEN calls[t].head ELSE pc[t] + 1]
  /\ UNCHANGED <<ports, einval, issued, dvars, output, num_threads, fuzzers,
                 stream, locked, _random, log, _state, privilege, status, arg,
                 calls, heap>>

\* pthread_mutex_lock, flockfile: return once nobody holds the lock.  (A
\* default mutex locked again by its holder does not return either.)
LockStep(t) ==
  /\ pc[t] > 0
  /\ AtStep(t).lock
  /\ Holders(AtStep(t).m) = {}
  /\ held' = [held EXCEPT ![t] = Append(held[t], AtStep(t).m)]
  /\ Stepped(t)

\* pthread_mutex_unlock, funlockfile
UnlockStep(t) ==
  /\ pc[t] > 0
  /\ ~AtStep(t).lock
  /\ held' = [held EXCEPT ![t] =
                SelectSeq(held[t], LAMBDA m : m # AtStep(t).m)]
  /\ Stepped(t)

NextLocks == \E t \in Threads : LockStep(t) \/ UnlockStep(t)

SpecLocks == InitLocks /\ [][NextLocks]_vars

(***************************************************************************)
(* SpecRandom: a random_t driven through random.c by a caller with one     *)
(* state buffer (_random and the char state[8] of the main file): draws,   *)
(* random_get_state into the buffer, random_set_state from it.  ops is the *)
(* record of the calls, each with what it returned and with bytes 6 and 7  *)
(* of the random_t after it.                                               *)
(***************************************************************************)

\* Bound: the calls made after the construction.
MaxCalls == 4

\* An unsigned long as its four bytes, least significant first.
Word32(v) == [i \in 1..SIZEOF_ULONG |-> (v \div Pow2(8 * (i - 1))) % 256]

\* The draws a caller makes: random_ulong (jrand48),
\* random_ulong_with_range(random, 0, MAXPORT) (erand48) and
\* random_fermat_number.
DrawKinds == {"ulong", "range", "fermat"}

Draw(kind, s) ==
  IF kind = "ulong" THEN random_ulong(s)
  ELSE IF kind = "fermat" THEN random_fermat_number(s)
  ELSE [val |-> Word32(random_ulong_with_range(s, 0, MAXPORT).val),
        rng |-> random_ulong_with_range(s, 0, MAXPORT).rng]

\* Bytes 6 and 7 of a state.
High(s) == <<s[7], s[8]>>

Call(op, kind, size, state, val, s) ==
  [op |-> op, kind |-> kind, size |-> size, state |-> state, val |-> val,
   hi |-> High(s)]

InitRandom ==
  /\ tokens = <<>>
  /\ ports = NULL
  /\ einval = FALSE
  /\ fuzzer = iofuzzer_new.fuzzer
  /\ rng = [own |-> iofuzzer_new.rng, ext |-> random_new]
  /\ lines = <<>>
  /\ issued = <<>>
  /\ output = NULL
  /\ num_threads = 0
  /\ pc = <<>>
  /\ fuzzers = <<>>
  /\ stream = <<>>
  /\ locked = <<>>
  /\ log = <<>>
  /\ privilege = 0
  /\ status = NULL
  /\ arg = <<>>
  /\ held = <<>>
  /\ calls = <<>>
  /\ heap = <<>>
  /\ _state = random_new
  /\ \E seed \in Seeds \cup {random_new} :
       /\ _random = random_new_with_state(seed, STATE_SIZE)
       /\ ops = <<Call("new_with_state", "", STATE_SIZE, seed, Word32(0),
                       random_new_with_state(seed, STATE_SIZE))>>

Called(c) ==
  /\ status = NULL
  /\ Len(ops) <= MaxCalls
  /\ ops' = Append(ops, c)
  /\ UNCHANGED <<ports, einval, issued, tokens, fuzzer, rng, lines, output,
                 num_threads, pc, fuzzers, stream, locked, log, privilege,
                 status, arg, held, calls, heap>>

RandomDraw ==
  \E kind \in DrawKinds :
    /\ _random' = Draw(kind, _random).rng
    /\ _state' = _state
    /\ Called(Call("draw", kind, 0, _state, Draw(kind, _random).val,
                   Draw(kind, _random).rng))

RandomGetState ==
  \E size \in Sizes :
    /\ _state' = random_get_state(_random, _state, size)
    /\ _random' = _random
    /\ Called(Call("get_state", "", size,
                   random_get_state(_random, _state, size), Word32(0),
                   _random))

RandomSetState ==
  \E size \in Sizes :
    /\ _random' = random_set_state(_random, _state, size)
    /\ _state' = _state
    /\ Called(Call("set_state", "", size, _state, Word32(0),
                   random_set_state(_random, _state, size)))

\* The lengths a caller gives random_string, each with a buffer of that many
\* chars, every char 0xFF before the call.
Lengths == {1, 2, 3}

\* for (i = 0; i < length - 2; i++), i an int and length a size_t: the turns
\* of the loop.  Below 2, length - 2 wraps round to the top of size_t and the
\* loop goes on for as long as i can count.
INT_MAX == 2147483647
StringTurns(length) == IF length >= 2 THEN length - 2 ELSE INT_MAX

\* random_string(_random, string, length) on a buffer of length chars.  val
\* is the index where the loop stopped and the NUL went.  A loop that runs
\* off the buffer writes over whatever lies behind it until the process is
\* stopped on an unmapped page.
RandomString ==
  \E length \in Lengths :
    /\ status = NULL
    /\ Len(ops) <= MaxCalls
    /\ _state' = _state
    /\ IF StringTurns(length) < length
         THEN /\ _random' = random_string(_random, [i \in 1..length |-> 255],
                                          length).rng
              /\ status' = status
              /\ ops' = Append(ops,
                    Call("draw", "string", length,
                         random_string(_random, [i \in 1..length |-> 255],
                                       length).out,
                         Word32(StringTurns(length)),
                         random_string(_random, [i \in 1..length |-> 255],
                                       length).rng))
         ELSE /\ _random' = _random
              /\ status' = SIGSEGV
              /\ ops' = Append(ops,
                    Call("draw", "string", length, [i \in 1..length |-> 255],
                         Word32(StringTurns(length)), _random))
    /\ UNCHANGED <<ports, einval, issued, tokens, fuzzer, rng, lines, output,
                   num_threads, pc, fuzzers, stream, locked, log, privilege,
                   arg, held, calls, heap>>

NextRandom == RandomDraw \/ RandomGetState \/ RandomSetState \/ RandomString

SpecRandom == InitRandom /\ [][NextRandom]_vars

(***************************************************************************)
(* SpecRefs: the reference counts.  A caller holds a fuzzer from           *)
(* iofuzzer_new, a random_t from random_new and a port list from           *)
(* iofuzzer_parse_ports, and calls the _ref, _unref and set functions on   *)
(* them.  heap is the memory: for each object the refcount field of its    *)
(* struct, the times free() was handed it, the calls of its _ref (the one  *)
(* in its _new included) and of its _unref, and the counted references the *)
(* caller holds.  ops is the last call made.                               *)
(***************************************************************************)

\* Bound: the _ref calls made on one object, the one in its _new included.
MaxRefs == 3

Object(n, owned) ==
  [refcount |-> n, frees |-> 0, refs |-> n, unrefs |-> 0, owned |-> owned]

\* free(p).
free(h, p) == [h EXCEPT ![p].frees = @ + 1]

\* array_ref, random_ref: refcount++ (EINVAL for NULL).
array_ref(h, a) ==
  IF a = NULL THEN h
  ELSE [h EXCEPT ![a[1]].refcount = @ + 1, ![a[1]].refs = @ + 1]

\* array_unref, random_unref: refcount--, and array_free or random_free
\* unless refcount > 0 (a size_t: anything but 0).
array_unref(h, a) ==
  IF a = NULL THEN h
  ELSE [h EXCEPT ![a[1]].refcount = @ - 1, ![a[1]].unrefs = @ + 1,
                 ![a[1]].frees = IF h[a[1]].refcount - 1 # 0 THEN @ ELSE @ + 1]

iofuzzer_free(h) ==
  free(array_unref(free(free(array_unref(array_unref(h, h.fuzzer.ports),
                                         h.fuzzer.random),
                             "variate5"),
                        "variate6"),
                   h.fuzzer.variates),
       "fuzzer")

iofuzzer_ref(h) ==
  [h EXCEPT !.fuzzer.refcount = @ + 1, !.fuzzer.refs = @ + 1,
            !.fuzzer.owned = @ + 1]

iofuzzer_unref(h) ==
  IF h.fuzzer.refcount - 1 # 0
    THEN [h EXCEPT !.fuzzer.refcount = @ - 1, !.fuzzer.unrefs = @ + 1,
                   !.fuzzer.owned = @ - 1]
    ELSE iofuzzer_free([h EXCEPT !.fuzzer.refcount = @ - 1,
                                 !.fuzzer.unrefs = @ + 1,
                                 !.fuzzer.owned = @ - 1])

\* iofuzzer_set_ports, iofuzzer_set_random: _unref of the object held, the
\* pointer stored, _ref of the object now held.
Install(h, field, p) ==
  array_ref([array_unref(h, h.fuzzer[field]) EXCEPT !.fuzzer[field] = p], p)

\* A pointer to memory already handed to free().
Stale(h, p) == p # NULL /\ h[p[1]].frees > 0

InitRefs ==
  /\ tokens = <<>>
  /\ ports = NULL
  /\ einval = FALSE
  /\ fuzzer = iofuzzer_new.fuzzer
  /\ rng = [own |-> iofuzzer_new.rng, ext |-> random_new]
  /\ lines = <<>>
  /\ issued = <<>>
  /\ ops = <<>>
  /\ output = NULL
  /\ num_threads = 0
  /\ pc = <<>>
  /\ fuzzers = <<>>
  /\ stream = <<>>
  /\ locked = <<>>
  /\ log = <<>>
  /\ privilege = 0
  /\ status = NULL
  /\ arg = <<>>
  /\ held = <<>>
  /\ calls = <<>>
  /\ _state = random_new
  /\ _random = random_new
  /\ heap = [fuzzer |-> [refcount |-> 1, frees |-> 0, refs |-> 1,
                         unrefs |-> 0, owned |-> 1, ports |-> NULL,
                         random |-> Ptr("random"),
                         variates |-> Ptr("variates")],
             random |-> Object(1, 0),
             variates |-> Object(1, 0),
             variate5 |-> Object(0, 0),
             variate6 |-> Object(0, 0),
             ext |-> Object(1, 1),
             list |-> Object(1, 1)]

\* A call returns, or, having touched memory already freed, may end the
\* process instead.
Returned(op, old, new, h, stale) ==
  /\ status = NULL
  /\ heap' = h
  /\ ops' = <<[op |-> op, old |-> old, new |-> new, before |-> heap]>>
  /\ status' \in (IF stale THEN {NULL, SIGSEGV} ELSE {NULL})
  /\ UNCHANGED <<ports, einval, issued, tokens, fuzzer, rng, lines, output,
                 num_threads, pc, fuzzers, stream, locked, _random, log,
                 _state, privilege, arg, held, calls>>

\* What a caller passes to a set function: NULL, an object it holds a
\* reference to, or the object it got from the fuzzer's get function.
Passed(p, got) ==
  IF p = NULL THEN TRUE
  ELSE /\ heap[p[1]].refs < MaxRefs
       /\ IF p = got THEN TRUE ELSE heap[p[1]].owned > 0

RefsRef ==
  /\ heap.fuzzer.owned > 0
  /\ heap.fuzzer.refs < MaxRefs
  /\ Returned("ref", NULL, NULL, iofuzzer_ref(heap), FALSE)

RefsUnref ==
  /\ heap.fuzzer.owned > 0
  /\ Returned("unref", NULL, NULL, iofuzzer_unref(heap),
              /\ heap.fuzzer.refcount = 1
              /\ \/ Stale(heap, heap.fuzzer.ports)
                 \/ Stale(heap, heap.fuzzer.random))

\* iofuzzer_set_random(fuzzer, r), r the caller's random_t or the one the
\* fuzzer holds (from iofuzzer_get_random).
RefsSetRandom ==
  \E r \in {Ptr("ext"), heap.fuzzer.random} :
    /\ heap.fuzzer.owned > 0
    /\ Passed(r, heap.fuzzer.random)
    /\ Returned("set_random", heap.fuzzer.random, r,
                Install(heap, "random", r),
                \/ Stale(heap, heap.fuzzer.random)
                \/ Stale(array_unref(heap, heap.fuzzer.random), r))

\* iofuzzer_set_ports(fuzzer, p), p NULL, the caller's list or the one the
\* fuzzer holds (from iofuzzer_get_ports).
RefsSetPorts ==
  \E p \in {NULL, Ptr("list"), heap.fuzzer.ports} :
    /\ heap.fuzzer.owned > 0
    /\ Passed(p, heap.fuzzer.ports)
    /\ Returned("set_ports", heap.fuzzer.ports, p,
                Install(heap, "ports", p),
                \/ Stale(heap, heap.fuzzer.ports)
                \/ Stale(array_unref(heap, heap.fuzzer.ports), p))

\* random_ref(r), array_ref(p) by the caller on what it holds.
CallerRef ==
  \E o \in {"ext", "list"} :
    /\ heap[o].owned > 0
    /\ heap[o].refs < MaxRefs
    /\ Returned("ref", NULL, Ptr(o),
                [array_ref(heap, Ptr(o)) EXCEPT ![o].owned = @ + 1], FALSE)

\* random_unref(r), array_unref(p) by the caller on what it holds.
CallerUnref ==
  \E o \in {"ext", "list"} :
    /\ heap[o].owned > 0
    /\ Returned("unref", Ptr(o), NULL,
                [array_unref(heap, Ptr(o)) EXCEPT ![o].owned = @ - 1], FALSE)

NextRefs ==
  \/ RefsRef
  \/ RefsUnref
  \/ RefsSetRandom
  \/ RefsSetPorts
  \/ CallerRef
  \/ CallerUnref

SpecRefs == InitRefs /\ [][NextRefs]_vars

(***************************************************************************)
(* SpecArray: an array from array_new driven through array_append_vals and *)
(* array_remove_vals.  heap.array is the struct with its backing store;    *)
(* ops is the record of the calls made, each with the array before it and  *)
(* the errno it left.                                                      *)
(***************************************************************************)

\* array_remove_vals(array, index, count).  The one test is index >= length;
\* the memmove has a size of length - (index + count) elements, a size_t,
\* and _array_set_length(array, length - count) follows.  With index + count
\* above the length the size wraps round to near SIZE_MAX: overrun tells it,
\* and the array is what is left where the copy does come back.
array_remove_vals(a, index, count) ==
  IF index >= a.length
    THEN [array |-> a, errno |-> EINVAL, overrun |-> FALSE]
    ELSE [array |->
            _array_set_length(
              [a EXCEPT !.data =
                 [i \in 1..Len(a.data) |->
                    IF i <= index THEN a.data[i]
                    ELSE IF index + count > a.length THEN Indeterminate
                    ELSE IF i <= a.length - count THEN a.data[i + count]
                    ELSE a.data[i]]],
              IF count <= a.length THEN a.length - count ELSE a.length).array,
          errno |-> 0,
          overrun |-> index + count > a.length]

InitArray ==
  /\ tokens = <<>>
  /\ ports = NULL
  /\ einval = FALSE
  /\ fuzzer = iofuzzer_new.fuzzer
  /\ rng = [own |-> iofuzzer_new.rng, ext |-> random_new]
  /\ lines = <<>>
  /\ issued = <<>>
  /\ ops = <<>>
  /\ output = NULL
  /\ num_threads = 0
  /\ pc = <<>>
  /\ fuzzers = <<>>
  /\ stream = <<>>
  /\ locked = <<>>
  /\ log = <<>>
  /\ privilege = 0
  /\ status = NULL
  /\ arg = <<>>
  /\ held = <<>>
  /\ calls = <<>>
  /\ _state = random_new
  /\ _random = random_new
  /\ \E size \in {1, SIZEOF_ULONG} : heap = [array |-> array_new(size)]

\* The call is over: r is what it made of the array.  A copy that ran over
\* the backing store may have ended the process instead.
ArrayCalled(op, index, count, r) ==
  /\ status = NULL
  /\ Len(ops) < MaxCalls
  /\ heap' = [array |-> r.array]
  /\ ops' = Append(ops, [op |-> op, index |-> index, count |-> count,
                         before |-> heap.array, errno |-> r.errno])
  /\ status' \in (IF r.overrun THEN {NULL, SIGSEGV} ELSE {NULL})
  /\ UNCHANGED <<ports, einval, issued, tokens, fuzzer, rng, lines, output,
                 num_threads, pc, fuzzers, stream, locked, _random, log,
                 _state, privilege, arg, held, calls>>

\* array_append_vals(array, data, count), the elements numbered on from the
\* last one appended.
ArrayAppend ==
  \E count \in 1..3 :
    /\ heap.array.length + count <= 3 * MaxCalls
    /\ ArrayCalled("append_vals", heap.array.length, count,
         [array |-> array_append_vals(heap.array,
                      [k \in 1..count |-> heap.array.length + k],
                      count),
          errno |-> 0, overrun |-> FALSE])

ArrayRemove ==
  \E index \in 0..heap.array.length, count \in 0..2 :
    /\ heap.array.length > 0
    /\ ArrayCalled("remove_vals", index, count,
                   array_remove_vals(heap.array, index, count))

NextArray == ArrayAppend \/ ArrayRemove

SpecArray == InitArray /\ [][NextArray]_vars

(***************************************************************************)
(* SpecParse: iofuzzer_parse_ports one step at a time, with its unsigned   *)
(* long values at their width of 32 bits (little-endian byte sequences).   *)
(* A step is one pass of the outer for (a token) or of the inner for (a    *)
(* port).                                                                  *)
(***************************************************************************)

\* The ports one token may append in the model.
MaxAppends == 4

\* ULONG_MAX of <limits.h>, 2^32 - 1.
ULONG_MAX == [i \in 1..SIZEOF_ULONG |-> 255]

\* a < b and a <= b on unsigned long.
Less32(a, b) ==
  \E i \in 1..SIZEOF_ULONG :
    a[i] < b[i] /\ \A j \in (i + 1)..SIZEOF_ULONG : a[j] = b[j]
LessEq32(a, b) == a = b \/ Less32(a, b)

\* port++ on unsigned long: modulo 2^32.
Succ32(w) ==
  [i \in 1..SIZEOF_ULONG |->
     IF \A j \in 1..(i - 1) : w[j] = 255 THEN (w[i] + 1) % 256 ELSE w[i]]

\* One digit taken by strtoul: acc * base + digit, and whether the value
\* has left the range of unsigned long, now or before.
MulAdd32(m, base, digit) ==
  LET t1 == m.val[1] * base + digit
      t2 == m.val[2] * base + t1 \div 256
      t3 == m.val[3] * base + t2 \div 256
      t4 == m.val[4] * base + t3 \div 256
  IN  [val |-> <<t1 % 256, t2 % 256, t3 % 256, t4 % 256>>,
       over |-> m.over \/ t4 \div 256 > 0]

\* The digit loop of strtoul on unsigned long: every digit is consumed, also
\* after the value has left the range.
RECURSIVE Accumulate32(_, _, _, _)
Accumulate32(str, i, base, m) ==
  IF i > Len(str) \/ DigitVal(str[i]) >= base THEN m
  ELSE Accumulate32(str, i + 1, base, MulAdd32(m, base, DigitVal(str[i])))

\* The result of the digit loop: ULONG_MAX (with errno ERANGE, which the
\* parser does not test) for a number out of range.
Saturated(m) == IF m.over THEN ULONG_MAX ELSE m.val

\* strtoul(str, NULL, 0) as an unsigned long.
strtoul32(str) ==
  IF Len(str) >= 3 /\ str[1] = "0" /\ str[2] \in {"x", "X"}
       /\ DigitVal(str[3]) < 16
    THEN Saturated(Accumulate32(str, 3, 16, [val |-> Word32(0), over |-> FALSE]))
  ELSE IF Len(str) >= 1 /\ str[1] = "0"
    THEN Saturated(Accumulate32(str, 1, 8, [val |-> Word32(0), over |-> FALSE]))
  ELSE Saturated(Accumulate32(str, 1, 10, [val |-> Word32(0), over |-> FALSE]))

\* if (end > MAXPORT) end = MAXPORT, for the end of a range.
ClampEnd32(end) ==
  IF Less32(Word32(MAXPORT), end) THEN Word32(MAXPORT) ELSE end

\* Numbers at and beyond the end of unsigned long, as the command line
\* writes them: 4294967295, 99999999999, 0xffffffff.
UlongMax10 == <<"4", "2", "9", "4", "9", "6", "7", "2", "9", "5">>
Overflowing == <<"9", "9", "9", "9", "9", "9", "9", "9", "9", "9", "9">>
UlongMax16 == <<"0", "x", "f", "f", "f", "f", "f", "f", "f", "f">>

\* The tokens of the port specs parsed here.
WideTokens ==
  {Number(112, 16), RenderToken(Range(128, 130, 16)),
   RenderToken(Range(65534, 131071, 16)), RenderToken(Range(5, 3, 10)),
   UlongMax10, Overflowing, UlongMax16,
   UlongMax16 \o <<"-">> \o UlongMax16}

\* The tokens written with commas between them.
RECURSIVE Join(_)
Join(toks) ==
  IF toks = <<>> THEN <<>>
  ELSE IF Len(toks) = 1 THEN toks[1]
  ELSE toks[1] \o <<",">> \o Join(Tail(toks))

\* The function is entered with a string: the array is new, strtok_r is
\* about to give the first token.
Entered(string) ==
  [ports |-> array_new(SIZEOF_ULONG),
   str |-> strtok_r(string, ",", 1, <<>>),
   i |-> 1, begin |-> Word32(0), end |-> Word32(0), port |-> Word32(0),
   n |-> 0]

InitParse ==
  /\ tokens \in UNION {[1..k -> WideTokens] : k \in 0..MaxTokens}
  /\ ports = Ptr(Join(tokens))
  /\ einval = FALSE
  /\ fuzzer = iofuzzer_new.fuzzer
  /\ rng = [own |-> iofuzzer_new.rng, ext |-> random_new]
  /\ lines = <<>>
  /\ issued = <<>>
  /\ ops = <<>>
  /\ output = NULL
  /\ num_threads = 0
  /\ pc = [t \in {0} |-> "str"]
  /\ fuzzers = <<>>
  /\ stream = <<>>
  /\ locked = <<>>
  /\ log = <<>>
  /\ privilege = 0
  /\ status = NULL
  /\ arg = <<>>
  /\ held = <<>>
  /\ calls = <<>>
  /\ _state = random_new
  /\ _random = random_new
  /\ heap = Entered(ports[1])

\* A step of the parser leaves everything but its frame and its position.
ParseStep(label, frame) ==
  /\ pc' = [pc EXCEPT ![0] = label]
  /\ heap' = frame
  /\ UNCHANGED <<ports, einval, issued, tokens, fuzzer, rng, lines, ops,
                 output, num_threads, fuzzers, stream, locked, _random, log,
                 _state, privilege, status, arg, held, calls>>

\* begin and end of the token strtok_r gave: end is begin for a single
\* value, the clamped second number for a range.
Bounds(sub) ==
  [begin |-> strtoul32(sub[1]),
   end |-> IF Len(sub) >= 2 THEN ClampEnd32(strtoul32(sub[2]))
           ELSE strtoul32(sub[1])]

\* The outer for has a token: begin, end, and port = begin.
ParseBounds ==
  /\ pc[0] = "str"
  /\ heap.i <= Len(heap.str)
  /\ ParseStep("port",
       [heap EXCEPT
          !.begin = Bounds(strtok_r(heap.str[heap.i], "-", 1, <<>>)).begin,
          !.end = Bounds(strtok_r(heap.str[heap.i], "-", 1, <<>>)).end,
          !.port = Bounds(strtok_r(heap.str[heap.i], "-", 1, <<>>)).begin,
          !.n = 0])

\* port <= end: array_append_val(ports, &port); port++.
ParseAppend ==
  /\ pc[0] = "port"
  /\ heap.n < MaxAppends
  /\ LessEq32(heap.port, heap.end)
  /\ ParseStep("port",
       [heap EXCEPT !.ports = array_append_val(heap.ports, heap.port),
                    !.port = Succ32(heap.port),
                    !.n = heap.n + 1])

\* port > end: the inner for is left, strtok_r gives the next token.
ParseLeave ==
  /\ pc[0] = "port"
  /\ ~LessEq32(heap.port, heap.end)
  /\ ParseStep("str", [heap EXCEPT !.i = heap.i + 1])

\* strtok_r gives NULL: return ports.
ParseReturn ==
  /\ pc[0] = "str"
  /\ heap.i > Len(heap.str)
  /\ ParseStep("return", heap)

NextParse == ParseBounds \/ ParseAppend \/ ParseLeave \/ ParseReturn

SpecParse == InitParse /\ [][NextParse]_vars

(***************************************************************************)
(* Properties.                                                             *)
(***************************************************************************)

\* C1: in every iteration of every worker the log line of the iteration has
\* been written, flushed and fsynced before the port instruction of the
\* iteration is dispatched: no instruction is issued whose line has not been
\* flushed.
C1_FlushedBeforeDispatch ==
  \A i \in 1..Len(issued) :
    /\ issued[i].line \in 1..Len(log)
    /\ log[issued[i].line].worker = issued[i].worker
    /\ log[issued[i].line].flushed

\* The workers between locking and unlocking the log sink.
InCriticalSection ==
  {t \in Threads :
     pc[t] \in {"iterate", "iterate_draws"}}

\* C2: at most one worker at a time is between locking and unlocking the log
\* sink, with stdout and with the file named by --output.
C2_OneInCriticalSection == Cardinality(InCriticalSection) <= 1

\* The selector and the operand slots 1-4 of a variate tuple.
Slots04(v) == SubSeq(v, 1, 5)

\* A fresh fuzzer given the port list p.
FreshWith(p) == iofuzzer_set_ports(iofuzzer_new.fuzzer, iofuzzer_new.rng, p)

\* iterate_with_state(state) on a fresh fuzzer with the port list of the
\* line, for a line (state, variates, ports) of the log.
ReplayOn(c, line) ==
  iofuzzer_iterate_with_state(c.fuzzer, c.rng, line.state, STATE_SIZE)

Replay(line) == ReplayOn(FreshWith(line.ports), line)

\* The selector and slots 1-4 an instruction was dispatched with.
Operands(i) ==
  <<CHOOSE k \in 0..(NUM_FUNCS - 1) : names[k + 1] = i.func, i.a, i.b, i.c, i.d>>

\* The line the harness logged last: the tuple the next iterate dispatches.
LastLine == lines[Len(lines)]

Generated(state, p) ==
  _iofuzzer_randomize([iofuzzer_new.fuzzer EXCEPT !.ports = p],
                      random_new_with_state(state, STATE_SIZE)).fuzzer

\* C3: with two or more workers sharing the process-wide random_t, every log
\* line is reproducible: re-seeding with the state field of the line and
\* running one variate generation with the same port list yields the selector
\* and the operand slots 1-4 of the line.
C3_LinesReproducible ==
  num_threads >= 2 =>
    \A i \in 1..Len(log) :
      Slots04(Elements(iofuzzer_get_variates(
                Generated(log[i].state, iofuzzer_parse_ports(ports)))))
        = Slots04(log[i].variates)

\* No operation so far was a set-variates.
NoSetVariates == \A i \in 1..Len(ops) : ops[i].op # "set_variates"

\* The last operation, if any, was set-state with an 8-byte state.
AfterSetState8 ==
  /\ ops # <<>>
  /\ ops[Len(ops)].op = "set_state"
  /\ ops[Len(ops)].size = STATE_SIZE

\* C5: in every state reached by construct, iterate, iterate-with-state,
\* set-ports, set-random and set-state, the state field is the state the
\* random_t had immediately before the generation step that produced the
\* current variates: generating from the state field gives the fuzzer and the
\* random_t as they are.  After set-state(s) with an 8-byte s, get-state
\* returns s.
C5_StateBeforeVariates ==
  NoSetVariates =>
    /\ _iofuzzer_randomize(fuzzer, iofuzzer_get_state(fuzzer))
         = [fuzzer |-> fuzzer, rng |-> rng[fuzzer.random]]
    /\ AfterSetState8 => iofuzzer_get_state(fuzzer) = ops[Len(ops)].state

\* set-state with the 8-byte seed has just been applied to a fuzzer that had
\* iterated before, and the state read back is the seed.
C5_Witness ==
  /\ NoSetVariates
  /\ AfterSetState8
  /\ Len(ops) = 2
  /\ ops[1].op = "iterate"
  /\ iofuzzer_get_state(fuzzer) = <<239, 205, 171, 137, 103, 69, 35, 1>>
  /\ Variate(fuzzer, 3) = 44

\* C6: after construction and after any sequence of public operations
\* (set-variates included) the variate sequence has length 7, slot 0 is in
\* [0, 11] and slot 3 is in [1, 64].
C6_VariatesShape ==
  /\ array_get_length(iofuzzer_get_variates(fuzzer)) = NUM_VARIATES
  /\ Variate(fuzzer, 0) \in 0..(NUM_FUNCS - 1)
  /\ Variate(fuzzer, 3) \in 1..(MAXSIZE \div 4)

\* The port list the fuzzer holds, as a sequence; none when it has no list.
PortList == IF fuzzer.ports = NULL THEN <<>> ELSE Elements(fuzzer.ports[1])

\* C7: every element of the port list the parser produced is in [0, 0xFFFF],
\* and slot 4 of the variate tuple is in [0, 0xFFFF] in every reachable state.
C7_PortsInRange ==
  /\ \A i \in 1..Len(PortList) : PortList[i] \in 0..MAXPORT
  /\ Variate(fuzzer, 4) \in 0..MAXPORT

\* C8: for a fuzzer with a non-empty port list P, after set-ports(P) and after
\* every subsequent iterate, slot 4 is an element of P.
C8_PortInList ==
  (ops # <<>> /\ PortList # <<>>) =>
    \E i \in 1..Len(PortList) : Variate(fuzzer, 4) = PortList[i]

\* The example list is installed and an iteration has run: slot 4 is one of
\* its five ports.
C8_Witness ==
  /\ Len(ops) >= 2
  /\ ops[Len(ops)].op = "iterate"
  /\ PortList = <<112, 128, 129, 130, 144>>
  /\ Variate(fuzzer, 4) \in {112, 128, 129, 130, 144}

\* The expansion of a token: [v] for a single value, LOW, LOW+1, ...,
\* min(HIGH, 0xFFFF) for LOW-HIGH; and of a token list, in token order.
Expansion(t) ==
  IF t.range
    THEN [i \in 1..Max(0, Min(t.hi, MAXPORT) - t.lo + 1) |-> t.lo + i - 1]
    ELSE <<t.lo>>

RECURSIVE Expansions(_)
Expansions(toks) ==
  IF toks = <<>> THEN <<>> ELSE Expansion(toks[1]) \o Expansions(Tail(toks))

\* The slot 4 a fuzzer without a list generates from the state it holds.
NoListPort ==
  Variate(_iofuzzer_randomize([fuzzer EXCEPT !.ports = NULL],
                              iofuzzer_get_state(fuzzer)).fuzzer, 4)

\* C9: with a port spec that expands to no ports, exactly as with a missing
\* one, the fuzzer has no list and slot 4 is drawn from the whole of
\* [0, 0xFFFF]: it is the port a fuzzer without a list draws.
C9_EmptyIsNoList ==
  (ops # <<>> /\ Expansions(tokens) = <<>>) =>
    /\ iofuzzer_get_ports(fuzzer) = NULL
    /\ Variate(fuzzer, 4) = NoListPort

\* Every token of the spec is a value or a range of values.
Numeric(toks) == \A i \in 1..Len(toks) : toks[i].base # 0

\* C10: parsing a port spec (of values and ranges of values) yields the
\* concatenation, in token order, of the expansions of its tokens;
\* "0x70,0x80-0x82,0x90" gives [0x70,0x80,0x81,0x82,0x90] and
\* "0xFFFE-0x1FFFF" gives [0xFFFE,0xFFFF].
C10_ParseExpands ==
  (ops # <<>> /\ ports # NULL /\ Numeric(tokens)) =>
    /\ iofuzzer_get_ports(fuzzer) # NULL
    /\ PortList = Expansions(tokens)
    /\ tokens = Example1 => PortList = <<112, 128, 129, 130, 144>>
    /\ tokens = <<Range(65534, 131071, 16)>> => PortList = <<65534, 65535>>

\* The clamped range has been parsed and installed.
C10_Witness ==
  /\ ops # <<>>
  /\ ports = Ptr(<<"0", "x", "F", "F", "F", "E", "-",
                   "0", "x", "1", "F", "F", "F", "F">>)
  /\ PortList = <<65534, 65535>>

\* The threads thread_start has been called on.
Workers == {t \in Threads : arg[t] # NULL}

\* C11: the I/O privilege is requested before anything else runs: while it
\* has not been granted no worker exists, no log line has been written and no
\* port instruction has been issued, and a refusal ends the process with
\* EXIT_FAILURE.
C11_PrivilegeFirst ==
  /\ privilege # 3 =>
        /\ Workers = {}
        /\ \A t \in Threads \ {0} : pc[t] = "none"
        /\ log = <<>>
        /\ issued = <<>>
  /\ pc[0] \notin {"iopl", "spawn"} /\ privilege # 3 => status = EXIT_FAILURE

\* iopl(3) has been refused and the process has exited.
C11_Witness ==
  /\ pc[0] = "exit"
  /\ privilege = 0
  /\ status = EXIT_FAILURE
  /\ Workers = {}

\* C12: for --num-threads n >= 1 exactly n workers run, with pairwise
\* distinct ordinals: the main thread as ordinal 0 and n-1 created threads as
\* the ordinals 1..n-1; the worker field of every log line is in 0..n-1.
C12_DistinctOrdinals ==
  /\ Workers # {} =>
        /\ Cardinality(Workers) = num_threads
        /\ \A t, u \in Workers : t # u => arg[t] # arg[u]
        /\ arg[0] = Ptr(0)
        /\ {arg[t][1] : t \in Workers \ {0}} = 1..(num_threads - 1)
  /\ \A i \in 1..Len(log) : log[i].ordinal \in 0..(num_threads - 1)

\* Two workers have each logged a line, under the ordinals 0 and 1.
C12_Witness ==
  /\ num_threads = 2
  /\ Workers = {0, 1}
  /\ {log[i].ordinal : i \in 1..Len(log)} = {0, 1}

\* C13 as stated: with --num-threads 1 every log line has the worker ordinal
\* (field 2) 1.
C13_Stated ==
  num_threads = 1 => \A i \in 1..Len(log) : log[i].ordinal = 1

\* C13, amended: with --num-threads 1 every log line has the worker ordinal
\* (field 2) 0, the ordinal the main thread runs as.
C13_OrdinalZero ==
  num_threads = 1 => \A i \in 1..Len(log) : log[i].ordinal = 0

\* The single worker has logged two lines.
C13_Witness ==
  /\ num_threads = 1
  /\ Len(log) = 2
  /\ log[1].ordinal = 0 /\ log[2].ordinal = 0

\* C14: with one worker the state field of the first log line is the value
\* given by --state (zero when the option is absent).
C14_FirstStateIsSeed ==
  (num_threads = 1 /\ log # <<>>) => log[1].state = _state

\* The single worker, seeded with 0x0123456789ABCDEF, has logged its first
\* line.
C14_Witness ==
  /\ num_threads = 1
  /\ _state = <<239, 205, 171, 137, 103, 69, 35, 1>>
  /\ log # <<>>
  /\ log[1].state = <<239, 205, 171, 137, 103, 69, 35, 1>>

\* C15: a worker whose flush or fsync of a log line failed exits with failure
\* status instead of going on with its loop.
C15_FlushFailureExits ==
  \A t \in Threads :
    (Written(t) # {} /\ ~log[LastWritten(t)].flushed) =>
      pc[t] \in {"err", "exited"}

\* C16: any setup failure, a worker failing to open the --output file or to
\* construct its fuzzer included, terminates the whole process with a nonzero
\* exit status.
C16_SetupFailureExits ==
  (\E t \in Threads : pc[t] = "exited") => status \in {EXIT_FAILURE, SIGSEGV}

\* C17: when parsing the port spec fails the worker does not start iterating:
\* no port instruction is issued on the strength of a spec that could not be
\* parsed.
C17_NoIterationAfterParseFailure ==
  (ports # NULL /\ iofuzzer_parse_ports(ports) = NULL) => issued = <<>>

\* The calls made with a NULL argument.
NullOps == {i \in 1..Len(ops) : "null" \in DOMAIN ops[i]}

\* C18: every public fuzzer operation called with a NULL fuzzer, with a NULL
\* state buffer or (set-random) with a NULL random returns an
\* invalid-argument failure and leaves the fuzzer, its reference to the
\* random_t included, unchanged.
C18_NullRefused ==
  \A i \in NullOps :
    /\ ops[i].ret = NULL
    /\ ops[i].errno = EINVAL
    /\ ops[i].after = ops[i].before

\* The order locks are to be taken in: the sink, the mutex of a fuzzer, the
\* mutex of a random_t or of an array.
Rank(m) ==
  IF m.kind \in {"stdout", "file"} THEN 1
  ELSE IF m.kind = "fuzzer" THEN 2
  ELSE 3

\* A worker waiting for a lock that is held.
Blocked(t) ==
  pc[t] > 0 /\ AtStep(t).lock /\ Holders(AtStep(t).m) # {}

\* C19: every worker holds its locks in the order sink lock, fuzzer mutex,
\* then the mutex of a random_t or of an array innermost: none is taken in
\* reverse order or taken again by the thread holding it.  No reachable state
\* is a deadlock: some worker can always take its next step.
C19_LockOrder ==
  /\ \A t \in Threads :
       \A i, j \in 1..Len(held[t]) :
         i < j => Rank(held[t][i]) < Rank(held[t][j])
  /\ \E t \in Threads : pc[t] > 0 /\ ~Blocked(t)

\* Worker 0 holds stdout, its fuzzer and the shared random_t, in that order,
\* while worker 1 waits for the shared random_t.
C19_Witness ==
  /\ num_threads = 2
  /\ held[0] = <<SinkLock(0), FuzzerMutex(0), SharedRandomMutex>>
  /\ output = NULL
  /\ Blocked(1)
  /\ AtStep(1).m = SharedRandomMutex

\* The draws made after call i and before the next random_set_state.
Restores(i) == {j \in (i + 1)..Len(ops) : ops[j].op = "set_state"}
Until(i) ==
  IF Restores(i) = {} THEN Len(ops)
  ELSE (CHOOSE j \in Restores(i) : \A k \in Restores(i) : j <= k) - 1
DrawsAfter(i) ==
  SelectSeq(SubSeq(ops, i + 1, Until(i)), LAMBDA c : c.op = "draw")

\* Two sequences of draws agree: as far as both go and the same draws were
\* asked for, the same values came back.
SameDraws(a, b) ==
  \A k \in 1..Min(Len(a), Len(b)) :
    (\A m \in 1..k : a[m].kind = b[m].kind /\ a[m].size = b[m].size)
      => a[k].val = b[k].val /\ (a[k].kind = "string" => a[k].state = b[k].state)

\* C20: after random_get_state with size 8 and a later random_set_state, size
\* 8, of the state captured, the draws are those that followed the capture;
\* bytes 6 and 7 of the state are carried unchanged through the snapshot, the
\* restore and every draw.
C20_RoundTrip ==
  /\ \A i, j \in 1..Len(ops) :
       (/\ i < j
        /\ ops[i].op = "get_state" /\ ops[i].size = STATE_SIZE
        /\ ops[j].op = "set_state" /\ ops[j].size = STATE_SIZE
        /\ ops[j].state = ops[i].state)
         => SameDraws(DrawsAfter(i), DrawsAfter(j))
  /\ \A i \in 2..Len(ops) :
       /\ ops[i].op = "draw" => ops[i].hi = ops[i - 1].hi
       /\ (ops[i].op = "get_state" /\ ops[i].size = STATE_SIZE) =>
            ops[i].hi = ops[i - 1].hi /\ High(ops[i].state) = ops[i].hi
       /\ (ops[i].op = "set_state" /\ ops[i].size = STATE_SIZE) =>
            ops[i].hi = High(ops[i].state)

\* The state of a random_t seeded with 0x0123456789ABCDEF was captured, a
\* number drawn, the state restored and the same number drawn again; bytes 6
\* and 7 are still 0x23 and 0x01.
C20_Witness ==
  /\ Len(ops) = 5
  /\ ops[2].op = "get_state" /\ ops[2].size = STATE_SIZE
  /\ ops[3].op = "draw" /\ ops[3].kind = "ulong"
  /\ ops[4].op = "set_state" /\ ops[4].size = STATE_SIZE
  /\ ops[5].op = "draw" /\ ops[5].kind = "ulong"
  /\ ops[5].val = ops[3].val
  /\ ops[5].hi = <<35, 1>>
  /\ _random # ops[2].state

\* C21: random_string(buf, n) writes inside buf[0..n-1] only, and with n = 2
\* it writes one NUL at buf[0] and nothing else.
C21_StringInBounds ==
  \A i \in 1..Len(ops) :
    ops[i].kind = "string" =>
      /\ \E k \in 0..(ops[i].size - 1) : ops[i].val = Word32(k)
      /\ ops[i].size = 2 => ops[i].state = <<0, 255>>

\* The objects that carry a reference count.
Counted == {"fuzzer", "random", "variates", "ext", "list"}

\* C22: an object is freed exactly when its _unref calls reach its _ref calls
\* (the one of its creation included), never before and never twice; with
\* the fuzzer go its two buffers, and its random_t, its port list and its
\* variates unless somebody else holds a reference.
C22_FreedOnce ==
  /\ \A o \in Counted :
       /\ heap[o].frees <= 1
       /\ heap[o].frees = 1 <=> heap[o].unrefs = heap[o].refs
  /\ heap.fuzzer.frees = 1 =>
       /\ heap.variate5.frees = 1 /\ heap.variate6.frees = 1
       /\ \A o \in {"random", "variates"} : heap[o].frees = 1

\* C26: when iofuzzer_set_random or iofuzzer_set_ports has returned, the
\* object installed is alive with a reference count of 1 at least, and the
\* object held before has had one _unref more, or, being the one installed
\* again, as many references as before.
C26_InstalledAlive ==
  (/\ ops # <<>>
   /\ ops[1].op \in {"set_random", "set_ports"}
   /\ status = NULL) =>
     /\ ops[1].new # NULL =>
          /\ heap[ops[1].new[1]].frees = 0
          /\ heap[ops[1].new[1]].refcount >= 1
     /\ ops[1].old # NULL =>
          heap[ops[1].old[1]].unrefs = ops[1].before[ops[1].old[1]].unrefs + 1

\* The instructions a worker has issued.
IssuedBy(t) == {i \in 1..Len(issued) : issued[i].worker = t}

\* C23: each iteration of a worker issues one instruction: the one named in
\* the line the worker has just written, with the operands v1..v6 of that
\* line; the table of thread_start and the order of dispatch name the
\* twelve selectors alike.
C23_OneInstruction ==
  /\ \A k \in 1..NUM_FUNCS : thread_start_names[k] = names[k]
  /\ \A i \in 1..Len(issued) :
       /\ Len(issued[i].instr) = 1
       /\ log[issued[i].line].worker = issued[i].worker
       /\ log[issued[i].line].name = issued[i].instr[1].func
       /\ SubSeq(log[issued[i].line].variates, 2, NUM_VARIATES) =
            <<issued[i].instr[1].a, issued[i].instr[1].b,
              issued[i].instr[1].c, issued[i].instr[1].d,
              issued[i].instr[1].S, issued[i].instr[1].D>>
       /\ \A j \in 1..Len(issued) : issued[j].line = issued[i].line => j = i
  /\ \A t \in Threads :
       Cardinality(Written(t)) - Cardinality(IssuedBy(t)) \in {0, 1}

\* Two workers have each written a line and issued its instruction.
C23_Witness ==
  /\ Len(issued) = 2
  /\ issued[1].worker # issued[2].worker
  /\ log[issued[2].line].name = issued[2].instr[1].func

\* C24: a worker that has written a line holds the lock of its sink until
\* the instruction of the line has returned and the next tuple is drawn.
C24_SinkHeld ==
  \A t \in DOMAIN pc :
    (\/ pc[t] \in {"iterate", "iterate_draws"}
     \/ Cardinality(Written(t)) > Cardinality(IssuedBy(t)))
      => locked[t] # NULL /\ locked[t] = stream[t]

\* A worker has issued the instruction of its line, has not yet drawn the
\* next tuple, and holds the lock; the other worker is past its own line.
C24_Witness ==
  /\ num_threads = 2
  /\ pc[0] = "iterate_draws"
  /\ locked[0] = stream[0]
  /\ IssuedBy(0) # {}
  /\ Written(1) # {}

\* The operations that leave the fuzzer's random_t and variates array in
\* place and draw a tuple.
Drawing == {"iterate", "iterate_with_state", "set_state", "set_ports"}

\* C25: what the caller got from iofuzzer_get_variates and
\* iofuzzer_get_random before an operation that draws a tuple reads the
\* same after it: the array through the pointer to it, the state of the
\* random_t through the pointer to it.
C25_NoAlias ==
  [][(Len(ops') > Len(ops) /\ ops'[Len(ops')].op \in Drawing) =>
       /\ iofuzzer_get_variates(fuzzer') = iofuzzer_get_variates(fuzzer)
       /\ rng'[iofuzzer_get_random(fuzzer)] = rng[iofuzzer_get_random(fuzzer)]
    ]_vars

\* The 95 printable characters of ASCII.
Printable == 32..126

\* C27: random_string puts printable characters only before its terminating
\* NUL, each of them drawn for one value of the index alone; the buffers of
\* slots 5 and 6 hold no NUL before position 254.
C27_Printable ==
  /\ \A i, j \in 0..(SIZEOF_CHARSET - 1) :
       /\ charset(i) \in Printable
       /\ charset(i) = charset(j) => i = j
  /\ \A i \in 1..(MAXSIZE - 2) :
       fuzzer.variate5[i] \in Printable /\ fuzzer.variate6[i] \in Printable

\* C28: the capacity an array keeps track of is that of 16 elements doubled
\* some number of times, covers the length, and is not lowered by a call
\* that shortens the array.
C28_Capacity ==
  /\ \E k \in 0..(3 * MaxCalls) :
       heap.array.size = MINLENGTH * Pow2(k) * heap.array.element_size
  /\ heap.array.size >= heap.array.length * heap.array.element_size
  /\ \A i \in 1..Len(ops) : heap.array.size >= ops[i].before.size

\* C29: array_remove_vals with index >= length or index + count > length
\* sets errno to EINVAL and leaves the array as it was; within the range it
\* shortens the array by count and keeps the other elements in their order.
C29_RemoveChecked ==
  \A n \in 1..Len(ops) :
    (n = Len(ops) /\ ops[n].op = "remove_vals") =>
      IF \/ ops[n].index >= ops[n].before.length
         \/ ops[n].index + ops[n].count > ops[n].before.length
        THEN /\ ops[n].errno = EINVAL
             /\ status = NULL
             /\ heap.array = ops[n].before
        ELSE /\ status = NULL
             /\ heap.array.length = ops[n].before.length - ops[n].count
             /\ \A i \in 1..heap.array.length :
                  heap.array.data[i] =
                    ops[n].before.data[IF i <= ops[n].index THEN i
                                       ELSE i + ops[n].count]

\* What a call of iterate_with_state shows: the instruction dispatched, and
\* the state and the slots 0-4 the fuzzer holds afterwards.
Outcome(r) ==
  CHOOSE o \in {<<x.issued, iofuzzer_get_state(x.fuzzer),
                  Slots04(Elements(iofuzzer_get_variates(x.fuzzer)))>> :
                  x \in {r}} : TRUE

\* What the call made last has shown.
Seen == [issued |-> <<issued[Len(issued)]>>, fuzzer |-> fuzzer]

\* C30: iterate_with_state(s), with all 8 bytes of s, dispatches on a fuzzer
\* with any history the instruction it dispatches on a fresh fuzzer with
\* the same port list, and leaves the same state and slots 0-4.
C30_ReplayDeterminism ==
  \A n \in 1..Len(ops) :
    (n = Len(ops) /\ ops[n].op = "iterate_with_state") =>
      Outcome(Seen) =
        Outcome(Replay([ports |-> iofuzzer_get_ports(fuzzer),
                        state |-> ops[n].state]))

\* A fuzzer that has iterated, and so holds another state and other variates
\* than a fresh one, replays a state: one instruction more is dispatched.
C30_Witness ==
  /\ Len(ops) = 2
  /\ ops[1].op = "iterate"
  /\ ops[2].op = "iterate_with_state"
  /\ ops[2].state \in Seeds
  /\ lines[2].state # lines[1].state
  /\ lines[2].variates # lines[1].variates
  /\ Len(issued) = 2

\* n steps of the generator, one for each call of erand48 or jrand48.
RECURSIVE Advance(_, _)
Advance(s, n) ==
  IF n = 0 THEN s
  ELSE IF n = 1 THEN Xsubi(s)
  ELSE LET a == Advance(s, n \div 2)
       IN  IF a[1] >= 0 THEN Advance(a, n - n \div 2) ELSE a

\* The draws of one variate generation: the selector, two for each of the
\* slots 1 and 2, the count, the port, MAXSIZE - 2 for each buffer.
GenerationDraws == 1 + 2 + 2 + 1 + 1 + 2 * (MAXSIZE - 2)

\* C31: on the random_t of its own that a worker was set up with, the
\* snapshot of the k-th generation is the seed advanced by k times the 515
\* draws of one generation, and the random_t stands one generation after
\* the last snapshot, whatever the port list and the values drawn.
C31_DrawsPerStep ==
  (ops # <<>> /\ status = NULL) =>
    /\ \A i \in 2..Len(lines) :
         lines[i].state = Advance(ops[1].state, (i - 2) * GenerationDraws)
    /\ rng[fuzzer.random] = Advance(iofuzzer_get_state(fuzzer), GenerationDraws)

\* A worker set up with a port list of no port has iterated, and the tuple
\* drawn in the iteration differs from the one drawn in the setup.
C31_Witness ==
  /\ Len(ops) = 2
  /\ status = NULL
  /\ ops[2].op = "iterate"
  /\ iofuzzer_get_ports(fuzzer) # NULL
  /\ array_get_length(iofuzzer_get_ports(fuzzer)[1]) = 0
  /\ Slots04(lines[2].variates) # Slots04(lines[3].variates)

\* The value of an unsigned long that is at most MAXPORT.
Value(w) == w[1] + 256 * w[2]

\* The ports of begin..end: one for a single value.
PortCount(begin, end) ==
  IF begin = end THEN 1
  ELSE IF Less32(end, begin) THEN 0
  ELSE Value(end) - Value(begin) + 1

\* C32: the loop over the ports of a token is left when the ports from
\* begin to end have been appended, one port for a single value, also for
\* a single value of ULONG_MAX: the parser appends finitely many ports and
\* returns.
C32_ParseTerminates ==
  pc[0] = "port" => heap.n <= PortCount(heap.begin, heap.end)

=============================================================================
